---- MODULE Spec2Model ----
(***************************************************************************)
(* A model of cheerp::TypeOptimizer (TypeOptimizer.cpp): the memoizing     *)
(* type rewriter rewriteType with its explicit recursion, the analysis     *)
(* pre-pass gatherAllTypesInfo, the address rewriter rewriteGEPIndexes and *)
(* the merged-integer load/store sequences of rewriteFunction.             *)
(*                                                                         *)
(* The C++ recursion of rewriteType is modelled by an explicit call stack: *)
(* every action resumes the topmost activation at the place where it was   *)
(* suspended by a (recursive) call of rewriteType and runs it up to its    *)
(* next call or to its return.                                             *)
(***************************************************************************)
EXTENDS Integers, Sequences, FiniteSets, TLC

VARIABLES
    structs,                 \* the struct nodes of the type graph: struct type -> body
    insts,                   \* the cast, bitcast and escaping GEP instructions of the module
    seen,                    \* gatherAllTypesInfo: the instructions already visited
    geps,                    \* the address computations of the module: <<pointer type, indexes>>
    accesses,                \* those whose result is the pointer operand of loads and stores
    phase,                   \* runOnModule: "gather", "rewrite", "inits", "functions", "done"
    run,                     \* 1 in the run on the module, 2 in the run on its output
    downcastSourceToDestinationsMapping,
    baseTypesForByteLayout,
    escapingFields,
    typesMapping,            \* the memo table: old type -> TypeMappingInfo
    membersMappingData,      \* struct -> sequence of <<new field, offset>>
    newStructTypes,          \* the set of struct types created by rewriteType
    steps,                   \* the steps taken by the outermost rewriteType call in progress
    stack,                   \* the activations of rewriteType, outermost first
    ret,                     \* the value returned by the last finished call
    calls,                   \* history: the calls that returned, <<type, info, outermost>>
    failedAsserts,           \* history: the assertions of the code that did not hold
    nCalls,                  \* number of outermost rewriteType calls made so far
    gepOut,                  \* result of the last rewriteGEPIndexes
    mem,                     \* the memory behind the rewritten struct: address -> word
    written,                 \* history: old field address -> value last stored
    loaded,                  \* <<old field address, value>> of the last load, if no store followed
    roots,                   \* the types of the globals, functions and instructions
    constOut,                \* the last initializer rewritten: the old and the new constant
    functions,               \* the function list of the module
    pendingFunctions,        \* the functions still to rewrite, by position in the list
    events,                  \* history: insertions, rewriteFunction calls, declarations, redirections
    successors,              \* rewriteFunction: block of the function -> successors of its terminator
    blocksInDFSOrder,        \* rewriteFunction: the blocks in the order they are rewritten
    usedBlocks,              \* rewriteFunction: the blocks already in blocksInDFSOrder
    bbIndex,                 \* rewriteFunction: position in blocksInDFSOrder of the discovery loop
    CI,                      \* the call instruction that rewriteFunction is at
    newAttrs,                \* call handling: the arguments that keep the byval attribute
    attributesChanged,       \* call handling: whether newAttrs differs from the attributes of CI
    argIndex,                \* call handling: the argument the loop is at
    builder,                 \* call handling: the instructions inserted before CI
    globals,                 \* the global variable list of the module
    globalsMapping,          \* global variable -> the constant that replaces it
    globalTypeMapping,       \* global variable -> its type before the pass
    gvIndex                  \* runOnModule: position of a loop over the global variable list

vars == <<structs, insts, seen, geps, accesses, phase, run, downcastSourceToDestinationsMapping,
          baseTypesForByteLayout, escapingFields, typesMapping, membersMappingData,
          newStructTypes, steps, stack, ret, calls, failedAsserts, nCalls, gepOut, mem,
          written, loaded, roots, constOut, functions, pendingFunctions, events,
          successors, blocksInDFSOrder, usedBlocks, bbIndex, CI, newAttrs,
          attributesChanged, argIndex, builder, globals, globalsMapping,
          globalTypeMapping, gvIndex>>

-----------------------------------------------------------------------------
(* Types.  Array and pointer types are uniqued structurally (as in LLVM),  *)
(* struct types are identified nodes whose body lives in `structs`.        *)

IntTy(w)     == <<"int", w>>
DoubleTy     == <<"double", 64>>
PtrTy(t)     == <<"ptr", t>>
ArrTy(t, n)  == <<"arr", t, n>>
StructTy(id) == <<"struct", id, 0>>
FunctionTy(r, ps) == <<"func", r, ps>>
VoidTy       == <<"void", 0>>
NULL         == <<"null", 0>>

isIntegerTy(t) == t[1] = "int"
isPointerTy(t) == t[1] = "ptr"
isArrayTy(t)   == t[1] = "arr"
isStructTy(t)  == t[1] = "struct"
isFunctionTy(t) == t[1] = "func"
getBitWidth(t)          == t[2]
getElementType(t)       == t[2]
getNumElements(t)       == t[3]

Info(t, k) == [mappedType |-> t, elementMappingKind |-> k]

Last(s) == s[Len(s)]
Front(s) == SubSeq(s, 1, Len(s) - 1)

-----------------------------------------------------------------------------
(* Struct nodes.  StructType::create gives a fresh node; every old struct  *)
(* is rewritten at most once, so the fresh node is named after the struct  *)
(* it replaces.                                                            *)

Body(fs, base, flags, nm) ==
    [fields |-> fs, directBase |-> base, byteLayout |-> "byteLayout" \in flags,
     asmJS |-> "asmJS" \in flags, client |-> "client" \in flags,
     opaque |-> "opaque" \in flags, exported |-> "exported" \in flags, name |-> nm]

\* the number of generations of structs when run r starts
RECURSIVE Generations(_)
Generations(r) == IF r = 1 THEN 1 ELSE 2 * Generations(r - 1)

StructTypeCreate(st) == <<"struct", st[2], st[3] + Generations(run)>>

isClientType(S, t) == isStructTy(t) /\ S[t].client

\* DataLayout::getTypeAllocSize, byte-aligned as in the Cheerp data layout
RECURSIVE getTypeAllocSize(_, _)
getTypeAllocSize(S, t) ==
    CASE isIntegerTy(t) -> (getBitWidth(t) + 7) \div 8
      [] t = DoubleTy   -> 8
      [] isPointerTy(t) -> 4
      [] isArrayTy(t)   -> getNumElements(t) * getTypeAllocSize(S, getElementType(t))
      [] isStructTy(t)  ->
            LET fs == S[t].fields
                F[k \in 0..Len(fs)] ==
                    IF k = 0 THEN 0 ELSE F[k - 1] + getTypeAllocSize(S, fs[k])
            IN  F[Len(fs)]
      [] OTHER -> 0

\* StructLayout::getElementOffset
getElementOffset(S, t, idx) ==
    LET fs == S[t].fields
        F[k \in 0..idx] == IF k = 0 THEN 0 ELSE F[k - 1] + getTypeAllocSize(S, fs[k])
    IN  F[idx]

-----------------------------------------------------------------------------
(* The analysis tables.                                                    *)

\* the leaf (non-aggregate) types of baseType, in the order of the recursion
RECURSIVE LeafTypes(_, _)
LeafTypes(S, baseType) ==
    IF isArrayTy(baseType) THEN LeafTypes(S, getElementType(baseType))
    ELSE IF isStructTy(baseType) THEN
        LET fs == S[baseType].fields
            F[k \in 0..Len(fs)] == IF k = 0 THEN <<>> ELSE F[k - 1] \o LeafTypes(S, fs[k])
        IN  F[Len(fs)]
    ELSE <<baseType>>

\* addBaseType that keeps the first base type on a mismatch
addBaseTypeFirst(table, st, baseType) ==
    IF st \notin DOMAIN table THEN (st :> baseType) @@ table ELSE table

\* addBaseType that takes the new base type on a mismatch
addBaseTypeLast(table, st, baseType) == (st :> baseType) @@ table

\* one visit of the else branch: initialize the entry, or clear it on a mismatch
addBaseType(table, st, baseType) ==
    IF st \notin DOMAIN table THEN (st :> baseType) @@ table
    ELSE IF table[st] # baseType THEN [table EXCEPT ![st] = NULL]
    ELSE table

addAllBaseTypesForByteLayout(S, table, st, baseType) ==
    LET ls == LeafTypes(S, baseType)
        F[k \in 0..Len(ls)] == IF k = 0 THEN table ELSE addBaseType(F[k - 1], st, ls[k])
    IN  F[Len(ls)]

-----------------------------------------------------------------------------
(* rewriteType.  `s` is the state the activation works on, a record of the *)
(* variables rewriteType writes.                                           *)

Frame(t) ==
    [t |-> t, pc |-> "enter", i |-> 0, newTypes |-> <<>>, membersMapping |-> <<>>,
     arraysFound |-> <<>>, mergedInts |-> <<>>, directBaseLimit |-> 0,
     directBase |-> NULL, hasMergedArrays |-> FALSE, newStruct |-> NULL,
     newStructKind |-> "IDENTICAL", todo |-> {}]

Top(s) == Last(s.stack)
SetTop(s, f) == [s EXCEPT !.stack = Front(s.stack) \o <<f>>]
Fail(s, label) == [s EXCEPT !.failedAsserts = @ \cup {label}]

\* the topmost activation, left at f, calls rewriteType(t)
CallRewriteType(s, f, t) == [s EXCEPT !.stack = Front(s.stack) \o <<f, Frame(t)>>]

\* the topmost activation returns info to its caller
Return(s, info) ==
    [s EXCEPT !.stack = Front(s.stack), !.ret = info,
              !.calls = @ \cup {<<Top(s).t, info, Len(s.stack) = 1>>}]

CacheAndReturn(s, r, kind) ==
    Return([s EXCEPT !.typesMapping = (Top(s).t :> Info(r, kind)) @@ @], Info(r, kind))

\* SetBodyAndReturn that sets the new body of the old struct and maps the
\* struct to itself
SetBodyInPlace(s, newDirectBase) ==
    LET f == Top(s)
        b == s.structs[f.t]
        nb == [b EXCEPT !.fields = f.newTypes, !.directBase = newDirectBase]
    IN  CacheAndReturn([s EXCEPT !.structs[f.t] = nb], f.t, f.newStructKind)

\* lines 1493-1499: with the new direct base known, set the body and return
SetBodyAndReturn(s, newDirectBase) ==
    LET f == Top(s)
        b == s.structs[f.t]
        nb == [s.structs[f.newStruct] EXCEPT
                  !.fields = f.newTypes, !.directBase = newDirectBase, !.opaque = FALSE,
                  !.byteLayout = b.byteLayout, !.asmJS = (~b.byteLayout /\ b.asmJS)]
    IN  CacheAndReturn([s EXCEPT !.structs[f.newStruct] = nb], f.newStruct, f.newStructKind)

\* line 1493
RewriteDirectBase(s) ==
    LET f == Top(s)
        b == s.structs[f.t]
    IN  IF b.directBase # NULL
        THEN CallRewriteType(s, [f EXCEPT !.pc = "base"], b.directBase)
        ELSE SetBodyAndReturn(s, NULL)

\* lines 1487-1489
RewriteMember(s) ==
    CallRewriteType(s, [Top(s) EXCEPT !.pc = "member"], Top(s).newTypes[1])

\* lines 1474-1475
StartCollapse(s) ==
    LET f == Top(s)
    IN  CallRewriteType(
            [s EXCEPT !.typesMapping = (f.t :> Info(f.newTypes[1], "COLLAPSING")) @@ @],
            [f EXCEPT !.pc = "collapse"], f.newTypes[1])

\* the condition of lines 1465-1466
MayCollapse(S, st, newStruct, t0) ==
    \/ isPointerTy(t0) /\ isClientType(S, getElementType(t0))
    \/ /\ t0 # IntTy(8)
       /\ ~isPointerTy(t0)
       /\ ~S[newStruct].exported
       /\ ~S[st].byteLayout

\* lines 1458-1470 and the entry of isUnsafeDowncastSource (1211-1217)
CollapseCheck(s) ==
    LET f == Top(s)
        st == f.t
    IN  IF Len(f.newTypes) = 1 /\ ~s.structs[st].asmJS
        THEN IF MayCollapse(s.structs, st, f.newStruct, f.newTypes[1])
             THEN IF st \notin DOMAIN downcastSourceToDestinationsMapping
                  THEN StartCollapse(s)
                  ELSE IF downcastSourceToDestinationsMapping[st] = {}
                  THEN RewriteMember(s)
                  ELSE SetTop(s, [f EXCEPT !.pc = "unsafe",
                                           !.todo = downcastSourceToDestinationsMapping[st]])
             ELSE RewriteMember(s)
        ELSE RewriteDirectBase(s)

\* lines 1432-1449, after the merging loop
AfterLoop(s) ==
    LET f == Top(s)
        st == f.t
        b == s.structs[st]
        s1 == IF ~b.asmJS /\ ~b.byteLayout /\ Len(f.membersMapping) # Len(b.fields)
              THEN Fail(s, "membersMapping.size") ELSE s
    IN  IF f.hasMergedArrays
        THEN CollapseCheck(
                [SetTop(s1, [f EXCEPT !.newStructKind = "MERGED_MEMBER_ARRAYS"]) EXCEPT
                    !.membersMappingData =
                        IF st \in DOMAIN @ THEN @ ELSE (st :> f.membersMapping) @@ @])
        ELSE CollapseCheck(s1)

\* lines 1362-1366
RECURSIVE CurBase(_, _, _)
CurBase(S, curBase, i) ==
    IF S[curBase].directBase # NULL /\ Len(S[S[curBase].directBase].fields) > i
    THEN CurBase(S, S[curBase].directBase, i)
    ELSE curBase

\* FieldLoop that keeps the merging state at the limit of a direct base
FieldLoopNoReset(s) ==
    LET f == Top(s)
        st == f.t
        b == s.structs[st]
    IN  IF f.i = Len(b.fields) THEN AfterLoop(s)
        ELSE LET cb == CurBase(s.structs, st, f.i)
                 f1 == IF ~b.asmJS /\ f.i = f.directBaseLimit
                       THEN [f EXCEPT !.directBase = cb,
                                      !.directBaseLimit = Len(s.structs[cb].fields)]
                       ELSE f
             IN  CallRewriteType(s, [f1 EXCEPT !.pc = "field"], b.fields[f.i + 1])

\* lines 1330-1333 and 1354-1369: the head of the loop over the fields
FieldLoop(s) ==
    LET f == Top(s)
        st == f.t
        b == s.structs[st]
    IN  IF f.i = Len(b.fields) THEN AfterLoop(s)
        ELSE LET cb == CurBase(s.structs, st, f.i)
                 f1 == IF ~b.asmJS /\ f.i = f.directBaseLimit
                       THEN [f EXCEPT !.arraysFound = <<>>, !.mergedInts = <<>>,
                                      !.directBase = cb,
                                      !.directBaseLimit = Len(s.structs[cb].fields)]
                       ELSE f
             IN  CallRewriteType(s, [f1 EXCEPT !.pc = "field"], b.fields[f.i + 1])

\* the width of the integers small integer fields are merged into (1399, 1411, 1425)
WordBits == 32

\* FirstFit that takes the first fillable integer, whatever space it has left
FirstFitAny(mergedInts, w) == IF mergedInts = <<>> THEN 0 ELSE 1

\* lines 1403-1407: the first currently fillable integer with enough space, 0 if none
FirstFit(mergedInts, w) ==
    LET c == {m \in 1..Len(mergedInts) : ~(mergedInts[m][2] < w)}
    IN  IF c = {} THEN 0 ELSE CHOOSE m \in c : \A k \in c : m <= k

RemoveAt(q, m) == SubSeq(q, 1, m - 1) \o SubSeq(q, m + 1, Len(q))

\* line 1397
FieldEscapes(directBase, i) == <<directBase, i>> \in escapingFields

\* lines 1428-1430: the field becomes a new field of the new struct
PushNewField(f, rt) ==
    [f EXCEPT !.membersMapping = Append(@, <<Len(f.newTypes), 0>>),
              !.newTypes = Append(@, rt), !.i = @ + 1]

\* MergeArray that records the merged field at element offset 0
MergeArrayNoOffset(f, rt) ==
    LET arrayElementType == getElementType(rt)
    IN  IF arrayElementType \in DOMAIN f.arraysFound
        THEN LET typeIndex == f.arraysFound[arrayElementType]
             IN  [f EXCEPT
                    !.newTypes[typeIndex + 1] =
                        ArrTy(arrayElementType,
                              getNumElements(f.newTypes[typeIndex + 1]) + getNumElements(rt)),
                    !.membersMapping = Append(@, <<typeIndex, 0>>),
                    !.hasMergedArrays = TRUE, !.i = @ + 1]
        ELSE PushNewField(
                [f EXCEPT !.arraysFound = (arrayElementType :> Len(f.newTypes)) @@ @], rt)

\* lines 1376-1394
MergeArray(f, rt) ==
    LET arrayElementType == getElementType(rt)
    IN  IF arrayElementType \in DOMAIN f.arraysFound
        THEN LET typeIndex == f.arraysFound[arrayElementType]
                 previousArrayType == f.newTypes[typeIndex + 1]
             IN  [f EXCEPT
                    !.newTypes[typeIndex + 1] =
                        ArrTy(arrayElementType,
                              getNumElements(previousArrayType) + getNumElements(rt)),
                    !.membersMapping =
                        Append(@, <<typeIndex, getNumElements(previousArrayType)>>),
                    !.hasMergedArrays = TRUE, !.i = @ + 1]
        ELSE PushNewField(
                [f EXCEPT !.arraysFound = (arrayElementType :> Len(f.newTypes)) @@ @], rt)

\* lines 1395-1427
MergeInteger(f, rt) ==
    LET w == getBitWidth(rt)
        m == FirstFit(f.mergedInts, w)
    IN  IF ~FieldEscapes(f.directBase, f.i) /\ w < WordBits
        THEN IF m # 0
             THEN LET mergedInt == f.mergedInts[m]
                      oldType == f.newTypes[mergedInt[1] + 1]
                      left == mergedInt[2] - w
                  IN  [f EXCEPT
                         !.newTypes[mergedInt[1] + 1] = IntTy(getBitWidth(oldType) + w),
                         !.membersMapping =
                             Append(@, <<mergedInt[1], WordBits - mergedInt[2]>>),
                         !.mergedInts =
                             IF left = 0 THEN RemoveAt(@, m)
                             ELSE [@ EXCEPT ![m] = <<mergedInt[1], left>>],
                         !.hasMergedArrays = TRUE, !.i = @ + 1]
             ELSE PushNewField(
                     [f EXCEPT !.mergedInts = Append(@, <<Len(f.newTypes), WordBits - w>>)],
                     rt)
        ELSE PushNewField(f, rt)

\* lines 1333 and 1370-1431: the body of the loop, with the rewritten field type
MergeField(f, b, rt) ==
    IF b.asmJS \/ b.byteLayout
    THEN [f EXCEPT !.newTypes = Append(@, rt), !.i = @ + 1]
    ELSE IF isArrayTy(rt) THEN MergeArray(f, rt)
    ELSE IF isIntegerTy(rt) THEN MergeInteger(f, rt)
    ELSE PushNewField(f, rt)

\* lines 1308-1336 and 1451-1455: a new struct is created and tentatively mapped
StructBody(s) ==
    LET f == Top(s)
        st == f.t
        b == s.structs[st]
        newStruct == StructTypeCreate(st)
        s1 == [s EXCEPT
                 !.structs = (newStruct :> Body(<<>>, NULL, {"opaque"} \cup
                                 (IF b.exported THEN {"exported"} ELSE {}), b.name))
                             @@ [@ EXCEPT ![st].name =
                                    IF b.name # "" THEN "obsoletestruct" ELSE ""],
                 !.newStructTypes = @ \cup {newStruct},
                 !.typesMapping = (st :> Info(newStruct, "IDENTICAL")) @@ @]
        f1 == [Frame(st) EXCEPT !.newStruct = newStruct]
    IN  IF b.asmJS \/ Len(b.fields) > 1 THEN FieldLoop(SetTop(s1, f1))
        ELSE IF Len(b.fields) = 1
        THEN CollapseCheck(SetTop(s1, [f1 EXCEPT !.newTypes = <<b.fields[1]>>]))
        ELSE CollapseCheck(SetTop(s1, f1))

\* ByteLayoutToArray that drops the entry of the struct once it has used it
ByteLayoutToArrayForget(s) ==
    LET st == Top(s).t
        baseType == s.baseTypesForByteLayout[st]
        numElements == getTypeAllocSize(s.structs, st) \div getTypeAllocSize(s.structs, baseType)
        s1 == [s EXCEPT !.baseTypesForByteLayout[st] = NULL]
    IN  IF numElements = 1
        THEN CacheAndReturn(s1, baseType, "BYTE_LAYOUT_TO_ARRAY")
        ELSE CacheAndReturn(s1, ArrTy(baseType, numElements), "BYTE_LAYOUT_TO_ARRAY")

\* lines 1298-1305
ByteLayoutToArray(s) ==
    LET st == Top(s).t
        baseType == s.baseTypesForByteLayout[st]
        numElements == getTypeAllocSize(s.structs, st) \div getTypeAllocSize(s.structs, baseType)
    IN  IF numElements = 1
        THEN CacheAndReturn(s, baseType, "BYTE_LAYOUT_TO_ARRAY")
        ELSE CacheAndReturn(s, ArrTy(baseType, numElements), "BYTE_LAYOUT_TO_ARRAY")

\* lines 1277-1296: the loop over the fields from index Top(s).i on
ByteLayoutLoop(s) ==
    LET f == Top(s)
        fs == s.structs[f.t].fields
        c == {k \in (f.i + 1)..Len(fs) : isStructTy(fs[k])}
    IN  IF c = {} THEN ByteLayoutToArray(s)
        ELSE LET k == CHOOSE k \in c : \A j \in c : k <= j
             IN  IF ~s.structs[fs[k]].byteLayout THEN StructBody(s)
                 ELSE CallRewriteType(s, [f EXCEPT !.pc = "sub", !.i = k], fs[k])

\* lines 1259-1273
ByteLayout(s) ==
    LET st == Top(s).t
        table == addAllBaseTypesForByteLayout(s.structs, s.baseTypesForByteLayout, st, st)
        s1 == [s EXCEPT !.baseTypesForByteLayout = table]
    IN  IF st \notin DOMAIN table THEN StructBody(Fail(s1, "baseTypesForByteLayout.find"))
        ELSE IF table[st] = NULL THEN StructBody(s1)
        ELSE IF getTypeAllocSize(s.structs, st) % getTypeAllocSize(s.structs, table[st]) # 0
        THEN StructBody(s1)
        ELSE ByteLayoutLoop(s1)

\* lines 1228-1253 and 1501-1539: the entry of rewriteType(t)
Enter(s0) ==
    LET t == Top(s0).t
        s == IF t \in s0.newStructTypes THEN Fail(s0, "newStructTypes.count") ELSE s0
    IN  IF t \in DOMAIN s.typesMapping
        THEN LET found == s.typesMapping[t]
             IN  IF found.elementMappingKind = "COLLAPSING"
                 THEN IF isStructTy(found.mappedType)
                      THEN CallRewriteType(
                              IF found.mappedType = t THEN Fail(s, "mappedType != t") ELSE s,
                              [Top(s) EXCEPT !.pc = "forward"], found.mappedType)
                      ELSE LET used == Info(found.mappedType, "COLLAPSING_BUT_USED")
                           IN  Return([s EXCEPT !.typesMapping[t] = used], used)
                 ELSE Return(s, found)
        ELSE IF isStructTy(t)
        THEN IF s.structs[t].client THEN CacheAndReturn(s, t, "IDENTICAL")
             ELSE IF s.structs[t].opaque THEN CacheAndReturn(s, t, "IDENTICAL")
             ELSE IF s.structs[t].byteLayout THEN ByteLayout(s)
             ELSE StructBody(s)
        ELSE IF isFunctionTy(t)
        THEN CallRewriteType(s, [Top(s) EXCEPT !.pc = "function"], t[2])
        ELSE IF isPointerTy(t)
        THEN CallRewriteType(s, [Top(s) EXCEPT !.pc = "pointer"], getElementType(t))
        ELSE IF isArrayTy(t)
        THEN CallRewriteType(s, [Top(s) EXCEPT !.pc = "array"], getElementType(t))
        ELSE CacheAndReturn(s, t, "IDENTICAL")

\* Forward that looks the type up again instead of returning
ForwardAgain(s) == SetTop(s, [Top(s) EXCEPT !.pc = "enter"])

\* line 1242: the forwarded request returns
Forward(s) == Return(s, s.ret)

\* lines 1288-1294
ByteLayoutSub(s) ==
    IF s.ret.elementMappingKind # "BYTE_LAYOUT_TO_ARRAY" THEN StructBody(s)
    ELSE ByteLayoutLoop(s)

\* lines 1333 and 1369-1431
Field(s) ==
    FieldLoop(SetTop(s, MergeField(Top(s), s.structs[Top(s).t], s.ret.mappedType)))

\* UnsafeDest that does not look at the kind of the destination
UnsafeDestIgnored(s) ==
    IF Top(s).todo = {} THEN StartCollapse(s)
    ELSE SetTop(s, [Top(s) EXCEPT !.pc = "unsafe"])

\* lines 1221-1225: one destination of the down-cast source has been rewritten
UnsafeDest(s) ==
    IF s.ret.elementMappingKind # "COLLAPSED" THEN RewriteMember(s)
    ELSE IF Top(s).todo = {} THEN StartCollapse(s)
    ELSE SetTop(s, [Top(s) EXCEPT !.pc = "unsafe"])

\* Collapse without the write of line 1481: the entry stays COLLAPSING
CollapseUncached(s) ==
    IF s.typesMapping[Top(s).t].elementMappingKind # "COLLAPSING_BUT_USED"
    THEN Return(s, Info(s.ret.mappedType, "COLLAPSED"))
    ELSE RewriteMember([s EXCEPT !.typesMapping[Top(s).t] =
                                    Info(Top(s).newStruct, "IDENTICAL")])

\* lines 1475-1484
Collapse(s) ==
    LET f == Top(s)
        st == f.t
        collapsed == s.ret.mappedType
        kind == s.typesMapping[st].elementMappingKind
    IN  IF kind # "COLLAPSING_BUT_USED"
        THEN LET s1 == IF kind # "COLLAPSING" THEN Fail(s, "COLLAPSING") ELSE s
             IN  IF f.newStructKind # "MERGED_MEMBER_ARRAYS"
                 THEN CacheAndReturn(s1, collapsed, "COLLAPSED")
                 ELSE CacheAndReturn(s1, collapsed, "MERGED_MEMBER_ARRAYS_AND_COLLAPSED")
        ELSE RewriteMember(
                [s EXCEPT !.typesMapping[st] = Info(f.newStruct, "IDENTICAL")])

\* lines 1489-1490
Member(s) == RewriteDirectBase(SetTop(s, [Top(s) EXCEPT !.newTypes[1] = s.ret.mappedType]))

\* line 1493
DirectBase(s) ==
    SetBodyAndReturn(s, IF isStructTy(s.ret.mappedType) THEN s.ret.mappedType ELSE NULL)

\* lines 1503-1507
Function(s) ==
    LET f == Top(s)
        ps == f.t[3]
        nt == Append(f.newTypes, s.ret.mappedType)
    IN  IF f.i < Len(ps)
        THEN CallRewriteType(s, [f EXCEPT !.newTypes = nt, !.i = @ + 1], ps[f.i + 1])
        ELSE CacheAndReturn(s, FunctionTy(nt[1], Tail(nt)), "IDENTICAL")

\* lines 1512-1521
Pointer(s) ==
    LET pt == Top(s).t
        elementType == getElementType(pt)
        newType == s.ret.mappedType
    IN  IF isArrayTy(newType)
        THEN CacheAndReturn(s, PtrTy(getElementType(newType)), "POINTER_FROM_ARRAY")
        ELSE IF newType = elementType THEN CacheAndReturn(s, pt, "IDENTICAL")
        ELSE CacheAndReturn(s, PtrTy(newType), "IDENTICAL")

\* lines 1525-1537
Array(s) ==
    LET at == Top(s).t
        elementType == getElementType(at)
        newType == s.ret.mappedType
    IN  IF isArrayTy(newType)
        THEN CacheAndReturn(s, ArrTy(getElementType(newType),
                                     getNumElements(at) * getNumElements(newType)),
                            "FLATTENED_ARRAY")
        ELSE IF newType = elementType THEN CacheAndReturn(s, at, "IDENTICAL")
        ELSE CacheAndReturn(s, ArrTy(newType, getNumElements(at)), "IDENTICAL")

-----------------------------------------------------------------------------
(* rewriteGEPIndexes.  The indexes are constants; every rewriteType call   *)
(* of the walk finds its type in the memo table (`missing` otherwise).     *)

Lookup(tm, t) == IF t \in DOMAIN tm THEN tm[t] ELSE Info(NULL, "MISSING")

\* lines 1826-1841
AddIndex(g, v) ==
    IF g.addToLastIndex
    THEN [g EXCEPT !.newIndexes[Len(g.newIndexes)] = @ + v, !.addToLastIndex = FALSE]
    ELSE [g EXCEPT !.newIndexes = Append(@, v), !.addToLastIndex = FALSE]

\* lines 1842-1852
AddMultipliedIndex(g, v, multiplier) == AddIndex(g, v * multiplier)

GEPFail(g, label) == [g EXCEPT !.failed = @ \cup {label}]

\* AddIndex(Zero) of lines 1874, 1918 and 1985; zeroAdded notes that it was called
AddZero(g) == [AddIndex(g, 0) EXCEPT !.zeroAdded = TRUE]

\* lines 1975-1978
IndexedType(S, curType, idx) ==
    IF isStructTy(curType) THEN S[curType].fields[idx + 1] ELSE getElementType(curType)

\* lines 1980-1987 (and 1914-1921): the target type has been reached
GEPFinish(x, g, result) ==
    LET g1 == IF g.curType \notin DOMAIN x.tm THEN [g EXCEPT !.missing = TRUE]
              ELSE IF x.tm[g.curType].mappedType # x.targetType
              THEN GEPFail(g, "rewriteType(curType) == targetType") ELSE g
        g2 == IF isArrayTy(x.targetType) THEN AddZero(g1) ELSE g1
    IN  [g2 EXCEPT !.integerOffset = result % 256]

\* lines 1891-1912: all the remaining indexes become one offset into the array
RECURSIVE GEPByteLayoutLoop(_, _, _)
GEPByteLayoutLoop(x, g, baseTypeSize) ==
    IF g.i = Len(x.idxs) THEN GEPFinish(x, g, 0)
    ELSE LET idx == x.idxs[g.i + 1]
             g1 == IF isStructTy(g.curType)
                   THEN LET elementOffset == getElementOffset(x.structs, g.curType, idx)
                        IN  AddIndex(IF elementOffset % baseTypeSize # 0
                                     THEN GEPFail(g, "elementOffset % baseTypeSize") ELSE g,
                                     elementOffset \div baseTypeSize)
                   ELSE LET elementSize ==
                                getTypeAllocSize(x.structs, getElementType(g.curType))
                        IN  AddMultipliedIndex(
                                IF elementSize % baseTypeSize # 0
                                THEN GEPFail(g, "elementSize % baseTypeSize") ELSE g,
                                idx, elementSize \div baseTypeSize)
         IN  GEPByteLayoutLoop(x,
                [g1 EXCEPT !.curType = IndexedType(x.structs, g.curType, idx),
                           !.addToLastIndex = TRUE, !.i = @ + 1],
                baseTypeSize)

\* GEPByteLayout that leaves the offset in bytes
GEPByteLayoutBytes(x, g, info) ==
    IF info.mappedType = x.targetType
    THEN [(IF isArrayTy(x.targetType) THEN AddZero(g) ELSE g) EXCEPT !.integerOffset = 0]
    ELSE IF ~isArrayTy(info.mappedType) THEN [g EXCEPT !.integerOffset = 0]
    ELSE GEPByteLayoutLoop(x, g, 1)

\* lines 1866-1922
GEPByteLayout(x, g, info) ==
    LET g1 == IF g.integerOffset # 0 THEN GEPFail(g, "integerOffset==0") ELSE g
        baseType == x.baseTypesForByteLayout[g.curType]
    IN  IF info.mappedType = x.targetType
        THEN [(IF isArrayTy(x.targetType) THEN AddZero(g1) ELSE g1) EXCEPT
                 !.integerOffset = 0]
        ELSE IF ~isArrayTy(info.mappedType)
        THEN [(IF info.mappedType # baseType THEN GEPFail(g1, "mappedType == baseType")
               ELSE g1) EXCEPT !.integerOffset = 0]
        ELSE GEPByteLayoutLoop(x, g1, getTypeAllocSize(x.structs, baseType))

\* lines 1923-1940
GEPFlattened(x, g, info, idx) ==
    LET g1 == IF info.elementMappingKind = "POINTER_FROM_ARRAY" /\ g.i # 0
              THEN GEPFail(g, "i==0") ELSE g
        oldTypeSize ==
            getTypeAllocSize(x.structs, Lookup(x.tm, getElementType(g.curType)).mappedType)
        elementSize == getTypeAllocSize(x.structs, getElementType(info.mappedType))
        g2 == IF oldTypeSize % elementSize # 0
              THEN GEPFail(g1, "oldTypeSize % elementSize") ELSE g1
    IN  [AddMultipliedIndex(g2, idx, oldTypeSize \div elementSize) EXCEPT
            !.addToLastIndex = TRUE]

\* GEPMerged that emits the bit offset of a merged integer as an index
GEPMergedEmitsOffset(x, g, info, elementIndex) ==
    LET oldStruct == g.curType
        mappedMember == x.membersMappingData[oldStruct][elementIndex + 1]
        g1 == IF info.elementMappingKind = "MERGED_MEMBER_ARRAYS"
              THEN AddIndex(g, mappedMember[1])
              ELSE IF mappedMember[1] # 0 THEN GEPFail(g, "mappedMember.first == 0")
              ELSE g
    IN  IF mappedMember[2] # 0
        THEN [AddIndex(g1, mappedMember[2]) EXCEPT !.addToLastIndex = TRUE]
        ELSE g1

\* lines 1941-1969
GEPMerged(x, g, info, elementIndex) ==
    LET oldStruct == g.curType
        mappedMember == x.membersMappingData[oldStruct][elementIndex + 1]
        g1 == IF info.elementMappingKind = "MERGED_MEMBER_ARRAYS"
              THEN AddIndex(g, mappedMember[1])
              ELSE IF mappedMember[1] # 0 THEN GEPFail(g, "mappedMember.first == 0")
              ELSE g
        mappedElementType ==
            Lookup(x.tm, x.structs[oldStruct].fields[elementIndex + 1]).mappedType
    IN  IF isIntegerTy(mappedElementType)
        THEN [g1 EXCEPT !.integerOffset = @ + mappedMember[2]]
        ELSE IF mappedMember[2] # 0
        THEN [AddIndex(g1, mappedMember[2]) EXCEPT !.addToLastIndex = TRUE]
        ELSE g1

\* GEPCollapsed that emits the index of the collapsed level
GEPCollapsedEmits(g, idx) == AddIndex(g, idx)

\* lines 1864-1865: a collapsed struct level emits nothing
GEPCollapsed(g, idx) == g

\* lines 1856-1979: the loop over the indexes
RECURSIVE GEPLoop(_, _)
GEPLoop(x, g) ==
    IF g.i = Len(x.idxs) THEN GEPFinish(x, g, g.integerOffset)
    ELSE LET idx == x.idxs[g.i + 1]
             info == Lookup(x.tm, g.curType)
             kind == info.elementMappingKind
             advance(h) ==
                 GEPLoop(x, [h EXCEPT !.curType = IndexedType(x.structs, g.curType, idx),
                                      !.i = @ + 1])
         IN  CASE kind = "IDENTICAL" -> advance(AddIndex(g, idx))
               [] kind = "COLLAPSED" -> advance(GEPCollapsed(g, idx))
               [] kind = "BYTE_LAYOUT_TO_ARRAY" -> GEPByteLayout(x, g, info)
               [] kind \in {"POINTER_FROM_ARRAY", "FLATTENED_ARRAY"} ->
                     advance(GEPFlattened(x, g, info, idx))
               [] kind \in {"MERGED_MEMBER_ARRAYS", "MERGED_MEMBER_ARRAYS_AND_COLLAPSED"} ->
                     advance(GEPMerged(x, g, info, idx))
               [] kind \in {"COLLAPSING", "COLLAPSING_BUT_USED"} ->
                     advance(GEPFail(g, "COLLAPSING"))
               [] OTHER -> [g EXCEPT !.missing = TRUE]

\* the old types a constant index list walks through, the base pointer type first
RECURSIVE WalkedTypes(_, _, _)
WalkedTypes(S, curType, idxs) ==
    IF idxs = <<>> THEN <<curType>>
    ELSE <<curType>> \o WalkedTypes(S, IndexedType(S, curType, Head(idxs)), Tail(idxs))

rewriteGEPIndexes(S, tm, mmd, btl, ptrType, idxs, targetType) ==
    GEPLoop([structs |-> S, tm |-> tm, membersMappingData |-> mmd,
             baseTypesForByteLayout |-> btl, idxs |-> idxs, targetType |-> targetType],
            [i |-> 0, curType |-> ptrType, newIndexes |-> <<>>, addToLastIndex |-> FALSE,
             integerOffset |-> 0, failed |-> {}, missing |-> FALSE, zeroAdded |-> FALSE])

-----------------------------------------------------------------------------
(* rewriteFunction: address computations, and the loads and stores of      *)
(* integers whose field has been merged into a shared integer.             *)

\* An integer of width w is the sequence of its w bits, lowest first.
Ones(w) == [k \in 1..w |-> 1]
Zeros(w) == [k \in 1..w |-> 0]
ZExt(v, w) == [k \in 1..w |-> IF k <= Len(v) THEN v[k] ELSE 0]
Trunc(v, w) == SubSeq(v, 1, w)
BitAnd(a, b) == [k \in 1..Len(a) |-> a[k] * b[k]]
BitOr(a, b) == [k \in 1..Len(a) |-> IF a[k] = 1 \/ b[k] = 1 THEN 1 ELSE 0]
BitNot(a) == [k \in 1..Len(a) |-> 1 - a[k]]
Shl(a, n) == [k \in 1..Len(a) |-> IF k > n THEN a[k - n] ELSE 0]
AShr(a, n) == [k \in 1..Len(a) |-> IF k + n <= Len(a) THEN a[k + n] ELSE a[Len(a)]]

\* GetElementPtrInst::getIndexedType behind a pointer: the first index steps over
\* the pointer, the others into the pointee
RECURSIVE getIndexedType(_, _, _)
getIndexedType(S, t, idxs) ==
    IF idxs = <<>> THEN t
    ELSE IF \/ isStructTy(t) /\ Head(idxs) < Len(S[t].fields)
            \/ isArrayTy(t)
            \/ isPointerTy(t)
    THEN getIndexedType(S, IndexedType(S, t, Head(idxs)), Tail(idxs))
    ELSE NULL

\* lines 2112-2132: the rewriting of one GetElementPtr instruction
RewriteGEP(S, tm, mmd, btl, ptrType, idxs) ==
    LET oldResult == getIndexedType(S, ptrType, idxs)
        targetType == Lookup(tm, oldResult).mappedType
        newPtrType == Lookup(tm, ptrType).mappedType
        g == rewriteGEPIndexes(S, tm, mmd, btl, ptrType, idxs, targetType)
        newPointee == getIndexedType(S, newPtrType, g.newIndexes)
    IN  IF newPtrType # ptrType \/ Lookup(tm, PtrTy(oldResult)).mappedType # PtrTy(oldResult)
        THEN [ptrType |-> ptrType, idxs |-> idxs, oldType |-> oldResult, rewritten |-> TRUE,
              newIndexes |-> g.newIndexes, mergedIntegerOffset |-> g.integerOffset,
              newType |-> newPointee, zeroAdded |-> g.zeroAdded,
              failed |-> g.failed \cup
                  (IF isArrayTy(newPointee) THEN {"isArrayTy"} ELSE {})]
        ELSE [ptrType |-> ptrType, idxs |-> idxs, oldType |-> oldResult, rewritten |-> FALSE,
              newIndexes |-> idxs, mergedIntegerOffset |-> 0, newType |-> oldResult,
              zeroAdded |-> FALSE, failed |-> {}]

\* the types rewriteFunction looks up for the instruction are in the memo table
GEPReady(S, tm, mmd, btl, ptrType, idxs) ==
    LET oldResult == getIndexedType(S, ptrType, idxs)
    IN  /\ {ptrType, oldResult} \subseteq DOMAIN tm
        /\ tm[ptrType].mappedType # ptrType \/ PtrTy(oldResult) \in DOMAIN tm
        /\ ~rewriteGEPIndexes(S, tm, mmd, btl, ptrType, idxs, tm[oldResult].mappedType).missing

\* MergedStore without the mask: the new bits are or-ed into the old ones
MergedStoreNoMask(word, value, offset) ==
    BitOr(word, Shl(ZExt(value, Len(word)), offset))

\* lines 2233-2243: load, mask, extend, shift, insert; the value that is stored
MergedStore(word, value, offset) ==
    LET maskVal == BitNot(Shl(ZExt(Ones(Len(value)), WordBits), offset))
        mask == BitAnd(word, Trunc(maskVal, Len(word)))
        extend == IF offset # 0 THEN Shl(ZExt(value, Len(word)), offset)
                  ELSE ZExt(value, Len(word))
    IN  BitOr(mask, extend)

\* lines 2256-2264: load, shift, truncate; the value that replaces the load
MergedLoad(word, oldBits, offset) ==
    Trunc(IF offset # 0 THEN AShr(word, offset) ELSE word, oldBits)

\* lines 2228 and 2253
isMergedPointer(g) == g.newType # g.oldType

\* the integers stored by the program: all bits clear, all set, top and bottom set
StoredValues(bits) ==
    {Zeros(bits), Ones(bits), [k \in 1..bits |-> IF k \in {1, bits} THEN 1 ELSE 0]}

-----------------------------------------------------------------------------
(* Constants.  A constant is <<kind, type, operands or bits>>; the          *)
(* initializers of globals are built of ConstantInt, ConstantFP,            *)
(* ConstantPointerNull, ConstantAggregateZero, UndefValue, ConstantStruct   *)
(* and ConstantArray.                                                       *)

ConstantInt(ty, bits)     == <<"int", ty, bits>>
ConstantFP(ty, v)         == <<"fp", ty, <<v>>>>
ConstantPointerNull(ty)   == <<"nullptr", ty, <<>>>>
ConstantAggregateZero(ty) == <<"zero", ty, <<>>>>
UndefValue(ty)            == <<"undef", ty, <<>>>>
ConstantStruct(ty, ops)   == <<"struct", ty, ops>>
ConstantArray(ty, ops)    == <<"array", ty, ops>>

getType(c) == c[2]
getOperand(c, i) == c[3][i + 1]

\* Constant::getNullValue
getNullValue(ty) ==
    IF isIntegerTy(ty) THEN ConstantInt(ty, Zeros(getBitWidth(ty)))
    ELSE IF ty = DoubleTy THEN ConstantFP(ty, 0)
    ELSE IF isPointerTy(ty) THEN ConstantPointerNull(ty)
    ELSE ConstantAggregateZero(ty)

\* a list of constants, and the assertions that did not hold on the way
Pushed(elems, failed) == [elems |-> elems, failed |-> failed]

\* lines 1542-1561; without assertions a constant that is neither a ConstantArray
\* nor a ConstantAggregateZero is read as zeros
pushAllArrayConstantElements(array) ==
    LET AT == getType(array)
    IN  IF ~isArrayTy(AT) THEN Pushed(<<>>, {"cast<ArrayType>(array->getType())"})
        ELSE IF array[1] = "array" THEN Pushed(array[3], {})
        ELSE Pushed([k \in 1..getNumElements(AT) |-> getNullValue(getElementType(AT))],
                    IF array[1] = "zero" THEN {}
                    ELSE {"isa<ConstantAggregateZero>(array)"})

\* lines 1069-1113
RECURSIVE pushAllBaseConstantElements(_, _, _)
pushAllBaseConstantElements(S, C, baseType) ==
    LET ty == getType(C)
        n == IF isArrayTy(ty) THEN getNumElements(ty) ELSE Len(S[ty].fields)
        element(k) ==
            IF C[1] \in {"array", "struct"} THEN C[3][k]
            ELSE getNullValue(IndexedType(S, ty, k - 1))
        F[k \in 0..n] ==
            IF k = 0 THEN Pushed(<<>>, IF C[1] \in {"array", "struct", "zero"} THEN {}
                                       ELSE {"isa<ConstantAggregateZero>(C)"})
            ELSE LET p == pushAllBaseConstantElements(S, element(k), baseType)
                 IN  Pushed(F[k - 1].elems \o p.elems, F[k - 1].failed \cup p.failed)
    IN  IF ty = baseType THEN Pushed(<<C>>, {})
        ELSE IF isArrayTy(ty) \/ isStructTy(ty) THEN F[n]
        ELSE Pushed(<<>>, {"not an aggregate and not the baseType"})

\* cast<ConstantInt>(c)->getZExtValue() as a uint32_t; the cast of a constant that
\* is not a ConstantInt fails its assertion, and without assertions reads whatever
\* bits lie where the value of a ConstantInt would be
getZExtValue(c, garbage) == IF c[1] = "int" THEN ZExt(c[3], WordBits) ELSE garbage

\* lines 1683-1686
MergeConstantInt(oldValue, newValue, offset) == BitOr(oldValue, Shl(newValue, offset))

RewrittenConstant(c, failed) == [c |-> c, failed |-> failed]

\* lines 1563-1728, for the constants that are neither globals nor expressions
RECURSIVE rewriteConstant(_, _)
rewriteConstant(x, C) ==
    LET newTypeInfo == Lookup(x.tm, getType(C))
        mapped == newTypeInfo.mappedType
        kind == newTypeInfo.elementMappingKind
        hasMergedArrays ==
            kind \in {"MERGED_MEMBER_ARRAYS", "MERGED_MEMBER_ARRAYS_AND_COLLAPSED"}
        mm == x.membersMappingData[getType(C)]
        \* lines 1660-1697: the elements of a ConstantStruct, one by one
        Operand(acc, i) ==
            LET r == rewriteConstant(x, getOperand(C, i))
                newElement == r.c
                first == mm[i + 1][1]
                oldMember == acc.elems[first + 1]
                old == pushAllArrayConstantElements(oldMember)
                new == pushAllArrayConstantElements(newElement)
                finalValue == MergeConstantInt(getZExtValue(oldMember, x.garbage),
                                               getZExtValue(newElement, x.garbage),
                                               mm[i + 1][2])
                IntType == IF kind = "MERGED_MEMBER_ARRAYS_AND_COLLAPSED" THEN mapped
                           ELSE x.structs[mapped].fields[first + 1]
            IN  IF hasMergedArrays /\ first # Len(acc.elems)
                THEN IF isArrayTy(getType(oldMember))
                     THEN Pushed([acc.elems EXCEPT ![first + 1] =
                                     ConstantArray(ArrTy(getElementType(getType(oldMember)),
                                                         Len(old.elems) + Len(new.elems)),
                                                   old.elems \o new.elems)],
                                 acc.failed \cup r.failed \cup old.failed \cup new.failed
                                     \cup (IF getElementType(getType(oldMember))
                                                # getElementType(getType(newElement))
                                           THEN {"getArrayElementType"} ELSE {}))
                     ELSE IF isIntegerTy(getType(oldMember))
                     THEN Pushed([acc.elems EXCEPT ![first + 1] =
                                     ConstantInt(IntType,
                                                 Trunc(finalValue, getBitWidth(IntType)))],
                                 acc.failed \cup r.failed
                                     \cup (IF oldMember[1] # "int" \/ newElement[1] # "int"
                                           THEN {"cast<ConstantInt>"} ELSE {}))
                     ELSE Pushed(acc.elems, acc.failed \cup r.failed)
                ELSE Pushed(Append(acc.elems, newElement), acc.failed \cup r.failed)
        Members[k \in 0..Len(C[3])] ==
            IF k = 0
            THEN Pushed(<<>>, IF hasMergedArrays /\ getType(C) \notin DOMAIN x.membersMappingData
                              THEN {"membersMappingIt != membersMappingData.end()"} ELSE {})
            ELSE Operand(Members[k - 1], k - 1)
        \* lines 1707-1722: the elements of a ConstantArray
        Elements[k \in 0..Len(C[3])] ==
            IF k = 0 THEN Pushed(<<>>, IF isArrayTy(mapped) THEN {} ELSE {"isArrayTy"})
            ELSE LET r == rewriteConstant(x, C[3][k])
                     p == pushAllArrayConstantElements(r.c)
                 IN  IF kind = "FLATTENED_ARRAY"
                     THEN Pushed(Elements[k - 1].elems \o p.elems,
                                 Elements[k - 1].failed \cup r.failed \cup p.failed)
                     ELSE Pushed(Append(Elements[k - 1].elems, r.c),
                                 Elements[k - 1].failed \cup r.failed)
    IN  IF getType(C) \notin DOMAIN x.tm THEN RewrittenConstant(C, {"MISSING"})
        ELSE IF getType(C) = mapped THEN RewrittenConstant(C, {})
        ELSE IF C[1] = "zero" THEN RewrittenConstant(getNullValue(mapped), {})
        ELSE IF C[1] = "nullptr" THEN RewrittenConstant(ConstantPointerNull(mapped), {})
        ELSE IF C[1] = "undef" THEN RewrittenConstant(UndefValue(mapped), {})
        ELSE IF C[1] = "struct"
        THEN IF kind = "BYTE_LAYOUT_TO_ARRAY"
             THEN LET baseType == x.baseTypesForByteLayout[getType(C)]
                      p == pushAllBaseConstantElements(x.structs, C, baseType)
                  IN  IF Len(p.elems) = 1 THEN RewrittenConstant(p.elems[1], p.failed)
                      ELSE RewrittenConstant(ConstantArray(ArrTy(baseType, Len(p.elems)), p.elems),
                                      p.failed)
             ELSE IF kind = "COLLAPSED"
             THEN LET r == rewriteConstant(x, getOperand(C, 0))
                  IN  RewrittenConstant(r.c, r.failed \cup
                                    (IF Len(C[3]) # 1 THEN {"getNumElements()==1"} ELSE {}))
             ELSE LET m == Members[Len(C[3])]
                  IN  IF kind = "MERGED_MEMBER_ARRAYS_AND_COLLAPSED"
                      THEN RewrittenConstant(m.elems[1], m.failed \cup
                                        (IF Len(m.elems) # 1 THEN {"newElements.size() == 1"}
                                         ELSE {}))
                      ELSE RewrittenConstant(ConstantStruct(mapped, m.elems), m.failed)
        ELSE IF C[1] = "array"
        THEN RewrittenConstant(ConstantArray(mapped, Elements[Len(C[3])].elems),
                        Elements[Len(C[3])].failed)
        ELSE RewrittenConstant(C, {"Unexpected constant in TypeOptimizer"})

-----------------------------------------------------------------------------
(* The state machine.                                                      *)

\* the bounds of the modules the pass is run on
ArrayLen == 4
MaxFields == 3
MaxInsts == 2

State ==
    [structs |-> structs, baseTypesForByteLayout |-> baseTypesForByteLayout,
     typesMapping |-> typesMapping, membersMappingData |-> membersMappingData,
     newStructTypes |-> newStructTypes, stack |-> stack, ret |-> ret, calls |-> calls,
     failedAsserts |-> failedAsserts]

Install(s) ==
    /\ structs' = s.structs
    /\ baseTypesForByteLayout' = s.baseTypesForByteLayout
    /\ typesMapping' = s.typesMapping
    /\ membersMappingData' = s.membersMappingData
    /\ newStructTypes' = s.newStructTypes
    /\ stack' = s.stack
    /\ ret' = s.ret
    /\ calls' = s.calls
    /\ failedAsserts' = s.failedAsserts
    /\ steps' = IF s.stack = <<>> THEN 0 ELSE steps + 1

\* the variables of the walk over the blocks of a function, of the handling of
\* a call and of the global variables of the module
blockVars == <<successors, blocksInDFSOrder, usedBlocks, bbIndex>>
callVars == <<CI, newAttrs, attributesChanged, argIndex, builder>>
globalVars == <<globals, globalsMapping, globalTypeMapping, gvIndex>>

others == <<insts, seen, geps, accesses, phase, run, downcastSourceToDestinationsMapping, escapingFields,
            nCalls, gepOut, mem, written, loaded, roots, constOut, functions,
            pendingFunctions, events, successors, blocksInDFSOrder, usedBlocks, bbIndex,
            CI, newAttrs, attributesChanged, argIndex, builder, globals, globalsMapping,
            globalTypeMapping, gvIndex>>

\* more steps than any call takes on the type graphs of the bounded size
StepLimit == 16 * (MaxFields + MaxInsts)

At(pc) == phase = "rewrite" /\ stack # <<>> /\ Last(stack).pc = pc /\ steps < StepLimit

-----------------------------------------------------------------------------
(* gatherAllTypesInfo: one step per instruction of the module.             *)

Inst(op, src, dst, zero, idx, escapes) ==
    [op |-> op, src |-> src, dst |-> dst, zero |-> zero, idx |-> idx, escapes |-> escapes]

\* GatherDowncast that skips the down-casts with an offset
GatherDowncastZeroOnly(table, I) ==
    IF ~I.zero THEN table
    ELSE (I.src :> ((IF I.src \in DOMAIN table THEN table[I.src] ELSE {}) \cup {I.dst}))
         @@ table

\* GatherDowncast that adds the destination also to an empty set
GatherDowncastAppends(table, I) ==
    IF ~I.zero THEN (I.src :> {}) @@ table
    ELSE (I.src :> ((IF I.src \in DOMAIN table THEN table[I.src] ELSE {}) \cup {I.dst}))
         @@ table

\* lines 1136-1154
GatherDowncast(table, I) ==
    IF ~I.zero THEN (I.src :> {}) @@ table
    ELSE IF I.src \in DOMAIN table /\ table[I.src] = {} THEN table
    ELSE (I.src :> ((IF I.src \in DOMAIN table THEN table[I.src] ELSE {}) \cup {I.dst}))
         @@ table

\* lines 1155-1160
GatherVirtualcast(table, I) == (I.src :> {}) @@ table

\* lines 1162-1169
GatherBitCast(S, table, I) ==
    IF ~isStructTy(I.src) \/ ~S[I.src].byteLayout THEN table
    ELSE addAllBaseTypesForByteLayout(S, table, I.src, I.dst)

\* lines 1115-1124 and 1170-1183 (1190-1203 for a constant expression)
GatherGEP(S, fields, I) ==
    IF ~I.escapes \/ ~isStructTy(I.src) THEN fields
    ELSE fields \cup {<<CurBase(S, I.src, I.idx), I.idx>>}

gatherAllTypesInfo ==
    /\ phase = "gather"
    /\ IF seen # insts
       THEN \E I \in insts \ seen :
                /\ seen' = seen \cup {I}
                /\ phase' = phase
                /\ downcastSourceToDestinationsMapping' =
                      IF I.op = "downcast"
                      THEN GatherDowncast(downcastSourceToDestinationsMapping, I)
                      ELSE IF I.op = "virtualcast"
                      THEN GatherVirtualcast(downcastSourceToDestinationsMapping, I)
                      ELSE downcastSourceToDestinationsMapping
                /\ baseTypesForByteLayout' =
                      IF I.op = "bitcast"
                      THEN GatherBitCast(structs, baseTypesForByteLayout, I)
                      ELSE baseTypesForByteLayout
                /\ escapingFields' =
                      IF I.op = "gep" THEN GatherGEP(structs, escapingFields, I)
                      ELSE escapingFields
       ELSE /\ phase' = "rewrite"
            /\ UNCHANGED <<seen, downcastSourceToDestinationsMapping,
                           baseTypesForByteLayout, escapingFields>>
    /\ UNCHANGED <<blockVars, callVars, globalVars, structs, insts, geps, accesses, run, typesMapping, membersMappingData,
                   newStructTypes, stack, ret, calls, failedAsserts, nCalls, gepOut, mem,
                   written, loaded, roots, steps, constOut,
                   functions, pendingFunctions, events>>

-----------------------------------------------------------------------------
(* rewriteType: an outermost call, and the steps of the activations.       *)

MaxCalls == 2

\* an outermost call rewriteType(t), as made by rewriteGlobal, rewriteFunction,
\* rewriteConstant and rewriteGEPIndexes
rewriteType ==
    /\ phase = "rewrite"
    /\ stack = <<>>
    /\ nCalls < MaxCalls
    /\ \E t \in roots : stack' = <<Frame(t)>>
    /\ nCalls' = nCalls + 1
    /\ UNCHANGED <<blockVars, callVars, globalVars, structs, insts, seen, geps, accesses, phase, run,
                   downcastSourceToDestinationsMapping, baseTypesForByteLayout,
                   escapingFields, typesMapping, membersMappingData, newStructTypes, ret,
                   calls, failedAsserts, gepOut, mem, written, loaded, roots, steps, constOut,
                   functions, pendingFunctions, events>>

rewriteTypeEnter == At("enter") /\ Install(Enter(State)) /\ UNCHANGED others
rewriteTypeForward == At("forward") /\ Install(Forward(State)) /\ UNCHANGED others
rewriteTypeByteLayoutSub == At("sub") /\ Install(ByteLayoutSub(State)) /\ UNCHANGED others
rewriteTypeField == At("field") /\ Install(Field(State)) /\ UNCHANGED others
rewriteTypeCollapse == At("collapse") /\ Install(Collapse(State)) /\ UNCHANGED others
rewriteTypeMember == At("member") /\ Install(Member(State)) /\ UNCHANGED others
rewriteTypeDirectBase == At("base") /\ Install(DirectBase(State)) /\ UNCHANGED others
rewriteTypeFunction == At("function") /\ Install(Function(State)) /\ UNCHANGED others
rewriteTypePointer == At("pointer") /\ Install(Pointer(State)) /\ UNCHANGED others
rewriteTypeArray == At("array") /\ Install(Array(State)) /\ UNCHANGED others

\* lines 1219-1221: the next destination, in the iteration order of the set of
\* StructType pointers, is rewritten
isUnsafeDowncastSource ==
    /\ At("unsafe")
    /\ \E destSt \in Last(stack).todo :
          Install(CallRewriteType(State,
                     [Last(stack) EXCEPT !.pc = "dest", !.todo = @ \ {destSt}], destSt))
    /\ UNCHANGED others

isUnsafeDowncastSourceDest == At("dest") /\ Install(UnsafeDest(State)) /\ UNCHANGED others

-----------------------------------------------------------------------------
(* rewriteFunction: one GetElementPtr, Store or Load instruction.  The     *)
(* store and the load execute the instructions they were rewritten to on   *)
(* the memory of the object the base pointer points to.                    *)

rewriteFunctionGEP ==
    /\ phase = "rewrite"
    /\ stack = <<>>
    /\ \E gep \in geps :
          /\ GEPReady(structs, typesMapping, membersMappingData, baseTypesForByteLayout,
                      gep[1], gep[2])
          /\ gepOut' = RewriteGEP(structs, typesMapping, membersMappingData,
                                  baseTypesForByteLayout, gep[1], gep[2])
    /\ UNCHANGED <<blockVars, callVars, globalVars, structs, insts, seen, geps, accesses, phase, run,
                   downcastSourceToDestinationsMapping, baseTypesForByteLayout,
                   escapingFields, typesMapping, membersMappingData, newStructTypes,
                   stack, ret, calls, failedAsserts, nCalls, mem, written, loaded, roots, steps, constOut,
                   functions, pendingFunctions, events>>

OldAddress(g) == <<g.ptrType, g.idxs>>
NewAddress(g) == <<g.ptrType, g.newIndexes>>
IsAccess(g) == g # <<>> /\ <<g.ptrType, g.idxs>> \in accesses /\ isIntegerTy(g.oldType)

\* lines 2219-2246; a word that was never stored to holds any bits
rewriteFunctionStore ==
    /\ phase = "rewrite"
    /\ stack = <<>>
    /\ IsAccess(gepOut)
    /\ \E value \in StoredValues(getBitWidth(gepOut.oldType)),
          undef \in {Zeros(getBitWidth(gepOut.newType)), Ones(getBitWidth(gepOut.newType))} :
          LET word == IF NewAddress(gepOut) \in DOMAIN mem THEN mem[NewAddress(gepOut)]
                      ELSE undef
              stored == IF isMergedPointer(gepOut)
                        THEN MergedStore(word, value, gepOut.mergedIntegerOffset)
                        ELSE value
          IN  /\ mem' = (NewAddress(gepOut) :> stored) @@ mem
              /\ written' = (OldAddress(gepOut) :> value) @@ written
              /\ loaded' = <<>>
    /\ UNCHANGED <<blockVars, callVars, globalVars, structs, insts, seen, geps, accesses, phase, run,
                   downcastSourceToDestinationsMapping, baseTypesForByteLayout,
                   escapingFields, typesMapping, membersMappingData, newStructTypes,
                   stack, ret, calls, failedAsserts, nCalls, gepOut, roots, steps, constOut,
                   functions, pendingFunctions, events>>

\* lines 2247-2268, of a field the program has stored to
rewriteFunctionLoad ==
    /\ phase = "rewrite"
    /\ stack = <<>>
    /\ IsAccess(gepOut)
    /\ NewAddress(gepOut) \in DOMAIN mem
    /\ LET word == mem[NewAddress(gepOut)]
       IN  loaded' = <<OldAddress(gepOut),
                       IF isMergedPointer(gepOut)
                       THEN MergedLoad(word, getBitWidth(gepOut.oldType),
                                       gepOut.mergedIntegerOffset)
                       ELSE word>>
    /\ UNCHANGED <<blockVars, callVars, globalVars, structs, insts, seen, geps, accesses, phase, run,
                   downcastSourceToDestinationsMapping, baseTypesForByteLayout,
                   escapingFields, typesMapping, membersMappingData, newStructTypes,
                   stack, ret, calls, failedAsserts, nCalls, gepOut, mem, written, roots, steps, constOut,
                   functions, pendingFunctions, events>>

-----------------------------------------------------------------------------
(* rewriteGlobalInit: the initializer of one global is rewritten.  The     *)
(* initializers are rewritten when the types of all globals have been and  *)
(* no function is left to rewrite (lines 2395-2407).                       *)

\* the low 16 bits of n as an integer of width w
Bits(n, w) == [k \in 1..w |-> IF k > 16 THEN 0 ELSE (n \div (2 ^ (k - 1))) % 2]

\* the constant of type t all of whose leaves hold different values
RECURSIVE Tagged(_, _, _)
Tagged(S, t, tag) ==
    IF isIntegerTy(t) THEN ConstantInt(t, Bits(tag, getBitWidth(t)))
    ELSE IF t = DoubleTy THEN ConstantFP(t, tag)
    ELSE IF isArrayTy(t)
    THEN ConstantArray(t, [k \in 1..getNumElements(t) |->
                              Tagged(S, getElementType(t), 8 * tag + k)])
    ELSE IF isStructTy(t)
    THEN ConstantStruct(t, [k \in 1..Len(S[t].fields) |->
                               Tagged(S, S[t].fields[k], 8 * tag + k)])
    ELSE ConstantPointerNull(t)

\* the initializers of a global of struct type t: all fields given, all zero,
\* undefined, and one field zero, undefined or with all bits set
Initializers(S, t) ==
    LET full == Tagged(S, t, 0)
        fs == S[t].fields
    IN  {full, ConstantAggregateZero(t), UndefValue(t)}
            \cup UNION {{ConstantStruct(t, [full[3] EXCEPT ![k] = v]) :
                            v \in {getNullValue(fs[k]), UndefValue(fs[k])}
                                     \cup (IF isIntegerTy(fs[k])
                                           THEN {ConstantInt(fs[k], Ones(getBitWidth(fs[k])))}
                                           ELSE {})} :
                        k \in 1..Len(fs)}

\* the struct types of the globals of the module
GlobalTypes ==
    {t \in roots \cup {getElementType(r) : r \in {q \in roots : isPointerTy(q)}} :
        isStructTy(t) /\ ~structs[t].opaque}

\* rewriteConstant on the constant C, with every outcome of the reads it makes
\* of constants that are not what it casts them to
RewrittenInitializers(C) ==
    LET x == [structs |-> structs, tm |-> typesMapping,
              membersMappingData |-> membersMappingData,
              baseTypesForByteLayout |-> baseTypesForByteLayout,
              garbage |-> Zeros(WordBits)]
        r == rewriteConstant(x, C)
    IN  IF "cast<ConstantInt>" \in r.failed
        THEN {r, rewriteConstant([x EXCEPT !.garbage = Ones(WordBits)], C)}
        ELSE {r}

\* lines 2370-2382, for the one global of the module that has an initializer
rewriteGlobalInit ==
    /\ phase = "rewrite"
    /\ stack = <<>>
    /\ roots \subseteq DOMAIN typesMapping
    /\ phase' = "inits"
    /\ \E GVType \in GlobalTypes \cap DOMAIN typesMapping :
       \E C \in Initializers(structs, GVType) :
       \E r \in RewrittenInitializers(C) :
          /\ "MISSING" \notin r.failed
          /\ constOut' =
                IF GVType = typesMapping[GVType].mappedType
                THEN [old |-> C, new |-> C, failed |-> {}]
                ELSE [old |-> C, new |-> r.c, failed |-> r.failed]
    /\ UNCHANGED <<blockVars, callVars, globalVars, structs, insts, seen, geps, accesses, run,
                   downcastSourceToDestinationsMapping, baseTypesForByteLayout,
                   escapingFields, typesMapping, membersMappingData, newStructTypes,
                   stack, ret, calls, failedAsserts, nCalls, gepOut, mem, written, loaded,
                   roots, steps, functions, pendingFunctions, events>>

-----------------------------------------------------------------------------
(* Functions.  A function of the module is a record of its name, its       *)
(* intrinsic ID, its type (a pointer to a function type) and the number of *)
(* call instructions that use it; the functions here are declarations.     *)

not_intrinsic == "not_intrinsic"

Func(name, id, type, uses) ==
    [name |-> name, intrinsicID |-> id, type |-> type, uses |-> uses]

getReturnType(FT) == FT[2]
getParamType(FT, i) == FT[3][i + 1]

\* the type suffix of the name of an overloaded intrinsic: a struct is named
\* by its name
RECURSIVE getMangledTypeStr(_, _)
getMangledTypeStr(S, t) ==
    IF isPointerTy(t) THEN <<"p", getMangledTypeStr(S, getElementType(t))>>
    ELSE IF isArrayTy(t)
    THEN <<"a", getMangledTypeStr(S, getElementType(t)), getNumElements(t)>>
    ELSE IF isStructTy(t) THEN <<"s", S[t].name>>
    ELSE t

\* line 1737
getName(S, id, Tys) == <<id, [k \in DOMAIN Tys |-> getMangledTypeStr(S, Tys[k])]>>

\* line 1744: the position of the function of that name, 0 if there is none
getFunction(fs, name) ==
    LET c == {F \in DOMAIN fs : fs[F].name = name}
    IN  IF c = {} THEN 0 ELSE CHOOSE F \in c : TRUE

\* lines 1752-1807: the types an intrinsic is overloaded on
OverloadedTys(id, FT) ==
    IF id \in {"cheerp_downcast", "cheerp_virtualcast", "cheerp_cast_user"}
    THEN <<getReturnType(FT), getParamType(FT, 0)>>
    ELSE IF id \in {"cheerp_pointer_kind", "cheerp_deallocate"}
    THEN <<getParamType(FT, 0)>>
    ELSE <<>>

\* the struct types a type is made of
RECURSIVE StructsOf(_)
StructsOf(t) ==
    IF isStructTy(t) THEN {t}
    ELSE IF isPointerTy(t) \/ isArrayTy(t) THEN StructsOf(getElementType(t))
    ELSE IF isFunctionTy(t)
    THEN StructsOf(t[2]) \cup UNION {StructsOf(t[3][k]) : k \in DOMAIN t[3]}
    ELSE {}

\* lines 1228-1248, 1503-1522: rewriteType(t) as rewriteFunction calls it, on a
\* function type whose old struct types are all in the memo table; new struct
\* types fail the assertion of line 1230
FunctionTypeRewritten(tm, made, t) ==
    IF t \in DOMAIN tm THEN [mappedType |-> tm[t].mappedType, failed |-> {}]
    ELSE [mappedType |-> t,
          failed |-> IF StructsOf(t) \cap made = {} THEN {}
                     ELSE {"!newStructTypes.count(t)"}]

\* the state rewriteFunction works on
Module(fs, pending, ev, failed) ==
    [functions |-> fs, pendingFunctions |-> pending, events |-> ev, failedAsserts |-> failed]

RECURSIVE rewriteFunction(_, _, _)

\* fixDepedendentIntrinsic that rewrites the intrinsic of the new name whether
\* it is pending or not
fixDepedendentIntrinsicAlways(c, x, F, FT) ==
    LET fn == x.functions[F]
        intrName == getName(c.structs, fn.intrinsicID, OverloadedTys(fn.intrinsicID, FT))
        intrF == getFunction(x.functions, intrName)
    IN  IF fn.name = intrName
        THEN [x |-> [x EXCEPT !.functions[F].type = PtrTy(FT)], fixed |-> TRUE]
        ELSE IF intrF = 0 THEN [x |-> x, fixed |-> FALSE]
        ELSE [x |-> rewriteFunction(c, x, intrF), fixed |-> FALSE]

\* lines 1735-1750
fixDepedendentIntrinsic(c, x, F, FT) ==
    LET fn == x.functions[F]
        intrName == getName(c.structs, fn.intrinsicID, OverloadedTys(fn.intrinsicID, FT))
        intrF == getFunction(x.functions, intrName)
    IN  IF fn.name = intrName
        THEN [x |-> [x EXCEPT !.functions[F].type = PtrTy(FT)], fixed |-> TRUE]
        ELSE IF intrF = 0 \/ intrF \notin x.pendingFunctions THEN [x |-> x, fixed |-> FALSE]
        ELSE [x |-> rewriteFunction(c, x, intrF), fixed |-> FALSE]

\* getDeclaration that puts the declaration it makes in the to-do set
getDeclarationPending(c, x, id, Tys, type) ==
    LET name == getName(c.structs, id, Tys)
    IN  IF getFunction(x.functions, name) # 0 THEN x
        ELSE [x EXCEPT !.functions = Append(@, Func(name, id, type, 0)),
                       !.pendingFunctions = @ \cup {Len(x.functions) + 1},
                       !.events = Append(@, <<"getDeclaration", Len(x.functions) + 1>>)]

\* line 1810: the declaration of the intrinsic for these types, made and added
\* to the module if the module does not have it
getDeclaration(c, x, id, Tys, type) ==
    LET name == getName(c.structs, id, Tys)
    IN  IF getFunction(x.functions, name) # 0 THEN x
        ELSE [x EXCEPT !.functions = Append(@, Func(name, id, type, 0)),
                       !.events = Append(@, <<"getDeclaration", Len(x.functions) + 1>>)]

\* lines 1730-1820
rewriteIntrinsic(c, x, F, FT) ==
    LET id == x.functions[F].intrinsicID
        newTys == OverloadedTys(id, FT)
        r == fixDepedendentIntrinsic(c, x, F, FT)
    IN  IF r.fixed THEN r.x
        ELSE LET x1 == getDeclaration(c, r.x, id, newTys, PtrTy(FT))
                 newFunc == getFunction(x1.functions, getName(c.structs, id, newTys))
             IN  IF newFunc = F
                 THEN [x1 EXCEPT !.failedAsserts = @ \cup {"newFunc != F"}]
                 ELSE [x1 EXCEPT !.functions[newFunc].uses = @ + x1.functions[F].uses,
                                 !.functions[F].uses = 0,
                                 !.events = Append(@, <<"redirect", F, newFunc>>)]

\* lines 1990-1998 and 2038-2043, for a function without a body; c holds the
\* struct types, the memo table and the new struct types
rewriteFunction(c, x, F) ==
    LET erased == F \in x.pendingFunctions
        fn == x.functions[F]
        r == FunctionTypeRewritten(c.typesMapping, c.newStructTypes, fn.type)
        newFuncType == r.mappedType
        x1 == [x EXCEPT !.pendingFunctions = @ \ {F},
                        !.events = Append(@, <<"rewriteFunction", F>>),
                        !.failedAsserts =
                            @ \cup r.failed \cup (IF erased THEN {} ELSE {"erased"})]
    IN  IF newFuncType = fn.type THEN x1
        ELSE IF fn.intrinsicID # not_intrinsic
        THEN rewriteIntrinsic(c, x1, F, getElementType(newFuncType))
        ELSE [x1 EXCEPT !.functions[F].type = newFuncType]

\* lines 2400-2401
pendingFunctionsInsert ==
    /\ phase = "rewrite"
    /\ stack = <<>>
    /\ functions # <<>>
    /\ \A F \in DOMAIN functions : functions[F].type \in DOMAIN typesMapping
    /\ phase' = "functions"
    /\ pendingFunctions' = DOMAIN functions
    /\ events' = [F \in DOMAIN functions |-> <<"insert", F>>]
    /\ UNCHANGED <<blockVars, callVars, globalVars, structs, insts, seen, geps, accesses, run,
                   downcastSourceToDestinationsMapping, baseTypesForByteLayout,
                   escapingFields, typesMapping, membersMappingData, newStructTypes,
                   stack, ret, calls, failedAsserts, nCalls, gepOut, mem, written, loaded,
                   roots, steps, constOut, functions>>

\* lines 2403-2404: one turn of the loop, on any of the pending functions
pendingFunctionsDrain ==
    /\ phase = "functions"
    /\ pendingFunctions # {}
    /\ \E F \in pendingFunctions :
          LET x == rewriteFunction(
                      [structs |-> structs, typesMapping |-> typesMapping,
                       newStructTypes |-> newStructTypes],
                      Module(functions, pendingFunctions, events, failedAsserts), F)
          IN  /\ functions' = x.functions
              /\ pendingFunctions' = x.pendingFunctions
              /\ events' = x.events
              /\ failedAsserts' = x.failedAsserts
    /\ UNCHANGED <<blockVars, callVars, globalVars, structs, insts, seen, geps, accesses, phase, run,
                   downcastSourceToDestinationsMapping, baseTypesForByteLayout,
                   escapingFields, typesMapping, membersMappingData, newStructTypes,
                   stack, ret, calls, nCalls, gepOut, mem, written, loaded,
                   roots, steps, constOut>>

\* lines 2413-2420: the intrinsics left without uses are collected in the set
\* and erased from the module
pendingFunctionsErase ==
    /\ phase = "functions"
    /\ pendingFunctions = {}
    /\ phase' = "done"
    /\ pendingFunctions' =
          {F \in DOMAIN functions :
              functions[F].intrinsicID # not_intrinsic /\ functions[F].uses = 0}
    /\ functions' =
          SelectSeq(functions,
                    LAMBDA fn : ~(fn.intrinsicID # not_intrinsic /\ fn.uses = 0))
    /\ UNCHANGED <<blockVars, callVars, globalVars, structs, insts, seen, geps, accesses, run,
                   downcastSourceToDestinationsMapping, baseTypesForByteLayout,
                   escapingFields, typesMapping, membersMappingData, newStructTypes,
                   stack, ret, calls, failedAsserts, nCalls, gepOut, mem, written, loaded,
                   roots, steps, constOut, events>>

-----------------------------------------------------------------------------
(* runOnModule on the module a finished run has left: a module without     *)
(* casts and address computations, all of whose types have been rewritten. *)

MaxRuns == 2

runOnModule ==
    /\ phase \in {"rewrite", "inits"}
    /\ stack = <<>>
    /\ run < MaxRuns
    /\ insts = {} /\ geps = {} /\ functions = <<>>
    /\ roots \subseteq DOMAIN typesMapping
    /\ run' = run + 1
    /\ roots' = {typesMapping[t].mappedType : t \in roots}
    /\ phase' = "gather"
    /\ typesMapping' = <<>>
    /\ membersMappingData' = <<>>
    /\ baseTypesForByteLayout' = <<>>
    /\ newStructTypes' = {}
    /\ ret' = Info(NULL, "IDENTICAL")
    /\ calls' = {}
    /\ nCalls' = 0
    /\ constOut' = <<>>
    /\ UNCHANGED <<blockVars, callVars, globalVars, structs, insts, seen, geps, accesses,
                   downcastSourceToDestinationsMapping, escapingFields, steps, stack,
                   failedAsserts, gepOut, mem, written, loaded, functions,
                   pendingFunctions, events>>

-----------------------------------------------------------------------------
(* The modules the pass is run on.                                         *)

A == StructTy(1)
B == StructTy(2)
C == StructTy(3)

I8 == IntTy(8)
I16 == IntTy(16)
I32 == IntTy(32)

Program(S, is, rs, gs, as) ==
    [structs |-> S, insts |-> is, roots |-> rs, geps |-> gs, accesses |-> as,
     functions |-> <<>>]

Plain(fs, nm) == Body(fs, NULL, {}, nm)


SeqsUpTo(S, lo, hi) == UNION {[1..n -> S] : n \in lo..hi}
SubsetsUpTo(S, n) == {x \in SUBSET S : Cardinality(x) <= n}

Downcast(src, dst, zero) == Inst("downcast", src, dst, zero, 0, FALSE)
Virtualcast(src) == Inst("virtualcast", src, NULL, FALSE, 0, FALSE)
BitCast(src, dst) == Inst("bitcast", src, dst, FALSE, 0, FALSE)
EscapingGEP(src, idx) == Inst("gep", src, NULL, FALSE, idx, TRUE)

\* structs of one field that hold each other by value, by pointer and in
\* arrays, rewritten in any order
WebField(lower) ==
    {I8, I32} \cup lower \cup {ArrTy(st, ArrayLen) : st \in lower}
        \cup {PtrTy(st) : st \in {A, B, C}}
        \cup {ArrTy(PtrTy(st), ArrayLen) : st \in {A, B, C}}

Webs ==
    {Program((A :> Plain(<<x>>, "A")) @@ (B :> Plain(<<y>>, "B")) @@ (C :> Plain(<<z>>, "C")),
             {}, {A, B, C}, {}, {}) :
        x \in WebField({B, C}), y \in WebField({C}),
        z \in WebField({}) \cup {PtrTy(FunctionTy(VoidTy, <<PtrTy(A), I32>>))}}

\* a chain of wrappers with downcasts and virtual casts between its structs
CastInsts ==
    {Downcast(p[1], p[2], zero) : p \in {<<C, B>>, <<C, A>>, <<B, A>>}, zero \in BOOLEAN}
        \cup {Virtualcast(C), Virtualcast(B)}

Casts ==
    {Program((A :> Plain(<<x>>, "A")) @@ (B :> Plain(<<y>>, "B")) @@ (C :> Plain(z, "C")),
             is, {A, B, C}, {}, {}) :
        x \in {B, I32}, y \in {C, I32, PtrTy(A)},
        z \in {<<I32>>, <<I8>>, <<PtrTy(A)>>, <<ArrTy(PtrTy(A), ArrayLen)>>,
               <<ArrTy(I32, ArrayLen), ArrTy(I32, ArrayLen)>>},
        is \in SubsetsUpTo(CastInsts, MaxInsts)}

\* a struct of small integers, doubles and arrays, with or without a direct
\* base that is a prefix of it, and with at most one field that escapes
MergeFields == {I8, I16, DoubleTy, ArrTy(I32, ArrayLen)}

Merges ==
    {Program((A :> Body(fs, IF k = 0 THEN NULL ELSE B, {}, "A"))
                 @@ (B :> Plain(SubSeq(fs, 1, IF k = 0 THEN 1 ELSE k), "B")),
             is, {A, B}, {}, {}) :
        fs \in SeqsUpTo(MergeFields, 2, MaxFields), k \in 0..2,
        is \in {{}} \cup {{EscapingGEP(A, e)} : e \in 0..1}}

\* a byte layout struct, the types it is accessed as, and a nested struct
Views ==
    {Program((A :> Body(fs, NULL, {"byteLayout"}, "A")) @@ (B :> Body(<<DoubleTy>>, NULL, fl, "B")),
             is, {A, PtrTy(A)}, {}, {}) :
        fs \in SeqsUpTo({DoubleTy, I32, B}, 1, MaxFields),
        fl \in {{}, {"byteLayout"}},
        is \in SubsetsUpTo({BitCast(A, DoubleTy), BitCast(A, I32), BitCast(B, DoubleTy)},
                           MaxInsts)}

\* the index lists of the GetElementPtr instructions on a pointer to t: every
\* field of a struct, the first and the last element of an array
RECURSIVE Paths(_, _, _)
Paths(S, t, depth) ==
    LET idxs == IF isStructTy(t) THEN 0..(Len(S[t].fields) - 1)
                ELSE IF isArrayTy(t) THEN {0, getNumElements(t) - 1}
                ELSE {}
    IN  {<<>>} \cup
        (IF depth = 0 THEN {}
         ELSE UNION {{<<idx>> \o p : p \in Paths(S, IndexedType(S, t, idx), depth - 1)} :
                        idx \in idxs})

MaxDepth == 3

GEPs(S, st) == {<<PtrTy(st), <<0>> \o p>> : p \in Paths(S, st, MaxDepth) \ {<<>>}}

WithGEPs(S, is, as) == Program(S, is, {PtrTy(A)}, GEPs(S, A), as)

\* integer fields that are stored to and loaded from
Packs ==
    {WithGEPs(A :> Plain(fs, "A"), is, GEPs(A :> Plain(fs, "A"), A)) :
        fs \in [1..2 -> {I8, I16, DoubleTy}], is \in {{}, {EscapingGEP(A, 0)}}}

\* addresses inside merged arrays
MergedArrays ==
    {WithGEPs(A :> Plain(fs, "A"), {}, {}) :
        fs \in SeqsUpTo({ArrTy(I32, ArrayLen), DoubleTy}, 2, MaxFields)}

\* addresses inside wrappers
Wrappers ==
    {WithGEPs((A :> Plain(<<B>>, "A")) @@ (B :> Plain(<<y>>, "B")) @@ (C :> Plain(<<z>>, "C")),
              is, {}) :
        y \in {C, I32, ArrTy(I32, ArrayLen), ArrTy(C, ArrayLen)},
        z \in {I32, ArrTy(I32, ArrayLen)},
        is \in {{}, {Downcast(C, B, FALSE)}, {Downcast(B, A, FALSE)}}}

\* client, opaque, exported and asm.js structs; an opaque struct has no size
\* and is only pointed to
FlaggedFields ==
    {p \in {B, PtrTy(B), ArrTy(B, ArrayLen)}
            \X {{}, {"client"}, {"opaque"}, {"exported"}, {"asmJS"}} :
        "opaque" \in p[2] => p[1] = PtrTy(B)}

Flagged ==
    {Program((A :> Body(<<p[1]>>, NULL, fa, "A"))
                 @@ (B :> Body(IF "opaque" \in p[2] THEN <<>> ELSE <<I32>>, NULL, p[2], "B")),
             {}, {A, B}, {}, {}) :
        p \in FlaggedFields, fa \in {{}, {"exported"}, {"asmJS"}, {"byteLayout"}}}

\* a struct of one small integer held by value next to another small integer,
\* with an address of the inner or of the outer field that escapes
Nested ==
    {Program((A :> Plain(<<x, I8>>, "A")) @@ (B :> Plain(<<I16>>, "B")), is, {A, B}, {}, {}) :
        x \in {B, I16}, is \in {{}, {EscapingGEP(B, 0)}, {EscapingGEP(A, 0)}}}

\* arrays of no elements next to arrays of the same element type
EmptyArrays ==
    {Program(A :> Plain(fs, "A"), {}, {A}, {}, {}) :
        fs \in [1..MaxFields -> {ArrTy(I32, 0), ArrTy(I32, ArrayLen)}]}

\* a struct of one field, an array of arrays, that may point to the struct
SelfArrays ==
    {Program(A :> Plain(<<ArrTy(ArrTy(x, ArrayLen), ArrayLen)>>, "A"), {}, rs, {}, {}) :
        x \in {I32, PtrTy(A)},
        rs \in {{A}, {PtrTy(A)}, {ArrTy(PtrTy(A), ArrayLen)}}}

\* intrinsics declared for pointers to a struct that is collapsed, with or
\* without the declarations for the types the pointers become, and a function
\* that is not an intrinsic
Declared(S, id, FT) ==
    Func(getName(S, id, OverloadedTys(id, FT)), id, PtrTy(FT), 1)

IntrinsicStructs == (A :> Plain(<<I32, I32>>, "A")) @@ (B :> Plain(<<I32>>, "B"))

Declarations ==
    {Declared(IntrinsicStructs, "cheerp_downcast", FunctionTy(PtrTy(A), <<PtrTy(B), I32>>)),
     Declared(IntrinsicStructs, "cheerp_downcast", FunctionTy(PtrTy(A), <<PtrTy(I32), I32>>)),
     Declared(IntrinsicStructs, "cheerp_pointer_kind", FunctionTy(I32, <<PtrTy(B)>>)),
     Declared(IntrinsicStructs, "cheerp_pointer_kind", FunctionTy(I32, <<PtrTy(I32)>>)),
     Func(<<"f">>, not_intrinsic, PtrTy(FunctionTy(VoidTy, <<PtrTy(A)>>)), 1)}

Intrinsics ==
    {[Program(IntrinsicStructs, {}, {fs[k].type : k \in DOMAIN fs}, {}, {})
        EXCEPT !.functions = fs] :
        fs \in {q \in SeqsUpTo(Declarations, 1, MaxCalls) :
                    \A i, j \in DOMAIN q : i # j => q[i] # q[j]}}

\* addresses inside an array of arrays, alone in its struct, after a field
\* that is not merged and after an array it is merged with
RowLen == 2

Matrices ==
    {WithGEPs(A :> Plain(fs \o <<ArrTy(ArrTy(I32, RowLen), ArrayLen)>>, "A"), {}, {}) :
        fs \in {<<>>, <<DoubleTy>>, <<ArrTy(I32, ArrayLen)>>}}

\* small integers next to a double, one of them held in a struct of two
PackedWords ==
    {WithGEPs(A :> Plain(<<x, y, DoubleTy>>, "A"), {}, {}) : x, y \in {I8, I16}}
        \cup {WithGEPs((A :> Plain(fs, "A")) @@ (B :> Plain(<<I8, I8>>, "B")), {}, {}) :
                 fs \in {<<I8, B>>, <<I8, B, DoubleTy>>, <<B, I8, DoubleTy>>}}

\* two arrays of structs that stay structs, or of pointers to them
ArraysOfStructs ==
    {Program((A :> Plain(<<ArrTy(x, ArrayLen), ArrTy(x, ArrayLen)>>, "A"))
                 @@ (B :> Plain(<<I32, DoubleTy>>, "B")), {}, {A}, {}, {}) :
        x \in {B, PtrTy(B)}}

\* byte layout structs of float64 that are addressed: plain fields, arrays of
\* one and of RowLen elements, a nested byte layout struct, an array of them
ByteLayoutFields ==
    {<<DoubleTy, DoubleTy>>, <<ArrTy(DoubleTy, 1)>>, <<DoubleTy, ArrTy(DoubleTy, RowLen)>>,
     <<DoubleTy, B>>, <<B, DoubleTy>>, <<ArrTy(B, RowLen)>>}

Unions ==
    {Program((A :> Body(fs, NULL, {"byteLayout"}, "A"))
                 @@ (B :> Body(<<DoubleTy, DoubleTy>>, NULL, {"byteLayout"}, "B")),
             {}, {PtrTy(A), r},
             GEPs((A :> Body(fs, NULL, {"byteLayout"}, "A"))
                      @@ (B :> Body(<<DoubleTy, DoubleTy>>, NULL, {"byteLayout"}, "B")), A),
             {}) :
        fs \in ByteLayoutFields, r \in {DoubleTy, ArrTy(DoubleTy, 1), ArrTy(DoubleTy, RowLen),
                                         ArrTy(B, RowLen)}}

Programs ==
    Webs \cup Casts \cup Merges \cup Views \cup Packs \cup MergedArrays \cup Wrappers
        \cup Flagged \cup Nested \cup EmptyArrays \cup SelfArrays \cup Intrinsics
        \cup Matrices \cup PackedWords \cup ArraysOfStructs \cup Unions

\* a function without a body, no call, a module without global variables
NoBlocks == successors = <<>> /\ blocksInDFSOrder = <<>> /\ usedBlocks = {} /\ bbIndex = 0
NoCall ==
    /\ CI = <<>> /\ newAttrs = {} /\ attributesChanged = FALSE /\ argIndex = 0
    /\ builder = <<>>
NoGlobals == globals = <<>> /\ globalsMapping = <<>> /\ globalTypeMapping = <<>> /\ gvIndex = 0

Init ==
    \E p \in Programs :
        /\ structs = p.structs
        /\ insts = p.insts
        /\ roots = p.roots
        /\ geps = p.geps
        /\ accesses = p.accesses
        /\ seen = {}
        /\ phase = "gather"
        /\ run = 1
        /\ downcastSourceToDestinationsMapping = <<>>
        /\ baseTypesForByteLayout = <<>>
        /\ escapingFields = {}
        /\ typesMapping = <<>>
        /\ membersMappingData = <<>>
        /\ newStructTypes = {}
        /\ stack = <<>>
        /\ steps = 0
        /\ ret = Info(NULL, "IDENTICAL")
        /\ calls = {}
        /\ failedAsserts = {}
        /\ nCalls = 0
        /\ gepOut = <<>>
        /\ mem = <<>>
        /\ written = <<>>
        /\ loaded = <<>>
        /\ constOut = <<>>
        /\ functions = p.functions
        /\ pendingFunctions = {}
        /\ events = <<>>
        /\ NoBlocks /\ NoCall /\ NoGlobals

Next ==
    \/ gatherAllTypesInfo
    \/ rewriteType
    \/ rewriteTypeEnter
    \/ rewriteTypeForward
    \/ rewriteTypeByteLayoutSub
    \/ rewriteTypeField
    \/ isUnsafeDowncastSource
    \/ isUnsafeDowncastSourceDest
    \/ rewriteTypeCollapse
    \/ rewriteTypeMember
    \/ rewriteTypeDirectBase
    \/ rewriteTypeFunction
    \/ rewriteTypePointer
    \/ rewriteTypeArray
    \/ rewriteFunctionGEP
    \/ rewriteFunctionStore
    \/ rewriteFunctionLoad
    \/ rewriteGlobalInit
    \/ pendingFunctionsInsert
    \/ pendingFunctionsDrain
    \/ pendingFunctionsErase
    \/ runOnModule

Spec == Init /\ [][Next]_vars

-----------------------------------------------------------------------------
(* Memoization.                                                            *)

\* C1: any two calls of rewriteType(t) made during one pass, the calls made
\* re-entrantly while t or a type containing t is still being resolved
\* included, return the same TypeMappingInfo (same mappedType, same kind).
C1_CallsAgree == \A c1, c2 \in calls : c1[1] = c2[1] => c1[2] = c2[2]

Transient == {"COLLAPSING", "COLLAPSING_BUT_USED"}

\* C2: COLLAPSING and COLLAPSING_BUT_USED are not visible outside the recursive
\* resolution: when an outermost rewriteType call has returned, no memo table
\* entry has such a kind, no outermost call has returned such a kind, and the
\* assert(false) branch of rewriteGEPIndexes for these kinds is not reached.
C2_TransientKindsHidden ==
    /\ stack = <<>> =>
          \A t \in DOMAIN typesMapping : typesMapping[t].elementMappingKind \notin Transient
    /\ \A c \in calls : c[3] => c[2].elementMappingKind \notin Transient
    /\ gepOut # <<>> => "COLLAPSING" \notin gepOut.failed

\* a struct that was marked COLLAPSING_BUT_USED by a re-entrant call has been
\* resolved, and the memo table is back with the callers of rewriteType
C2_Witness ==
    /\ stack = <<>>
    /\ \E c \in calls :
          /\ ~c[3]
          /\ c[2].elementMappingKind = "COLLAPSING_BUT_USED"
          /\ \E d \in calls : d[3] /\ d[1] = c[1]

-----------------------------------------------------------------------------
(* Termination.                                                            *)

isCollapsed(kind) == kind \in {"COLLAPSED", "MERGED_MEMBER_ARRAYS_AND_COLLAPSED"}

\* the type a chain of collapsed structs ends in, NULL when the chain is longer
\* than `fuel` entries (it is a cycle)
RECURSIVE Resolve(_, _, _)
Resolve(tm, t, fuel) ==
    IF fuel = 0 THEN NULL
    ELSE IF t \in DOMAIN tm /\ isStructTy(t) /\ isCollapsed(tm[t].elementMappingKind)
    THEN Resolve(tm, tm[t].mappedType, fuel - 1)
    ELSE t

\* the entries of the structs are final and not cyclic: no collapsed struct is
\* mapped to itself, directly or through other collapsed structs, the forwarding
\* step never finds a struct forwarded to itself, and a later outermost call
\* returns what the earlier one did
StableEntries ==
    /\ "mappedType != t" \notin failedAsserts
    /\ stack = <<>> =>
          \A t \in DOMAIN typesMapping :
             isStructTy(t) /\ isCollapsed(typesMapping[t].elementMappingKind) =>
                /\ typesMapping[t].mappedType # t
                /\ Resolve(typesMapping, t, Cardinality(DOMAIN typesMapping) + 1) # NULL
    /\ \A c1, c2 \in calls : c1[1] = c2[1] /\ c1[3] /\ c2[3] => c1[2] = c2[2]

\* C3: rewriteType terminates on every type graph, a struct that contains a
\* pointer back to itself through single-field wrapper structs included (the
\* COLLAPSING forwarding and the recursion of isUnsafeDowncastSource into the
\* cast destinations do not loop), and the entry it leaves for each struct is
\* stable and does not map the struct to itself through a cycle of collapses.
\* Every call returns within StepLimit steps.
C3_Terminates == (stack # <<>> => steps < StepLimit) /\ StableEntries

\* A{B{C{A*}}} has been rewritten: the request for A inside C was forwarded
\* through the COLLAPSING entries of A and B, and all three are C { C* }
C3_Witness ==
    /\ stack = <<>>
    /\ structs[A].fields = <<B>> /\ structs[B].fields = <<C>>
    /\ structs[C].fields = <<PtrTy(A)>>
    /\ {A, B, C} \subseteq DOMAIN typesMapping
    /\ \A t \in {A, B} : typesMapping[t] = Info(StructTypeCreate(C), "COLLAPSED")
    /\ structs[StructTypeCreate(C)].fields = <<PtrTy(StructTypeCreate(C))>>
    /\ \E c \in calls : c[1] = A /\ ~c[3]

-----------------------------------------------------------------------------
(* Collapse safety.                                                        *)

\* the structs that are the source of a down-cast whose offset operand is not
\* the constant 0, anywhere in the module
OffsetDowncastSources == {I.src : I \in {J \in insts : J.op = "downcast" /\ ~J.zero}}

\* C4: a struct that is the source of a down-cast with an offset other than the
\* constant 0, wherever the instruction stands among the others, never has the
\* kind COLLAPSED or MERGED_MEMBER_ARRAYS_AND_COLLAPSED in the memo table.
C4_OffsetDowncastSourceNotCollapsed ==
    \A t \in OffsetDowncastSources \cap DOMAIN typesMapping :
        ~isCollapsed(typesMapping[t].elementMappingKind)

\* a struct of one int32, source of a down-cast at offset 0 and of one with an
\* offset, has been rewritten to a struct
C4_Witness ==
    /\ stack = <<>>
    /\ \E t \in OffsetDowncastSources \cap DOMAIN typesMapping :
          /\ \E I \in insts : I.op = "downcast" /\ I.zero /\ I.src = t
          /\ structs[t].fields = <<I32>>
          /\ typesMapping[t] = Info(StructTypeCreate(t), "IDENTICAL")

\* C5: a down-cast source that ends collapsed (COLLAPSED or
\* MERGED_MEMBER_ARRAYS_AND_COLLAPSED) has every recorded destination struct
\* end with the kind COLLAPSED, also when the destination was being resolved
\* while the source was checked.
C5_DestinationsCollapsed ==
    stack = <<>> =>
       \A t \in DOMAIN downcastSourceToDestinationsMapping \cap DOMAIN typesMapping :
          isCollapsed(typesMapping[t].elementMappingKind) =>
             \A destSt \in downcastSourceToDestinationsMapping[t] :
                /\ destSt \in DOMAIN typesMapping
                /\ typesMapping[destSt].elementMappingKind = "COLLAPSED"

\* a collapsed source with a destination that was in progress when the source
\* was checked: the destination was asked for re-entrantly
C5_Witness ==
    /\ stack = <<>>
    /\ \E t \in DOMAIN downcastSourceToDestinationsMapping \cap DOMAIN typesMapping :
          /\ isCollapsed(typesMapping[t].elementMappingKind)
          /\ \E destSt \in downcastSourceToDestinationsMapping[t] :
                /\ typesMapping[destSt].elementMappingKind = "COLLAPSED"
                /\ \E c \in calls : c[1] = destSt /\ c[3]
                /\ \E c \in calls : c[1] = t /\ ~c[3]

-----------------------------------------------------------------------------
(* Merged integers.                                                        *)

\* where the rewritten address computation finds the old field
Rewritten(a) ==
    RewriteGEP(structs, typesMapping, membersMappingData, baseTypesForByteLayout, a[1], a[2])

\* the bits of the old field in the memory of the rewritten struct
FieldBits(a) ==
    LET g == Rewritten(a)
    IN  SubSeq(mem[NewAddress(g)], g.mergedIntegerOffset + 1,
               g.mergedIntegerOffset + getBitWidth(g.oldType))

Field0 == <<PtrTy(A), <<0, 0>>>>
Field1 == <<PtrTy(A), <<0, 1>>>>
MergedWord == <<PtrTy(A), <<0>>>>

\* C6: in a struct whose two 8 bit integer fields do not escape, the fields are
\* merged into one word at the bit offsets 0 and 8; for all stored values and
\* every order of the stores a load (shift right, truncate) returns the value
\* last stored to its field, a store (load, mask, extend, shift, or) changes
\* the bits of its own field only, and the word is v0 | (v1 << 8).  The first
\* two hold for every struct of small integers.
C6_BitPacking ==
    /\ loaded # <<>> /\ loaded[1] \in DOMAIN written => loaded[2] = written[loaded[1]]
    /\ \A a \in DOMAIN written : FieldBits(a) = written[a]
    /\ structs[A].fields = <<I8, I8>> /\ escapingFields = {} =>
          /\ \A a \in DOMAIN written :
                /\ NewAddress(Rewritten(a)) = MergedWord
                /\ Rewritten(a).mergedIntegerOffset = IF a = Field0 THEN 0 ELSE 8
          /\ {Field0, Field1} \subseteq DOMAIN written =>
                mem[MergedWord] = written[Field0] \o written[Field1]

\* both 8 bit fields hold different values, and field 1 has been loaded
C6_Witness ==
    /\ structs[A].fields = <<I8, I8>> /\ escapingFields = {}
    /\ {Field0, Field1} \subseteq DOMAIN written
    /\ written[Field0] = Ones(8) /\ written[Field1] # Ones(8) /\ written[Field1] # Zeros(8)
    /\ loaded = <<Field1, written[Field1]>>
    /\ mem[MergedWord] = written[Field0] \o written[Field1]

-----------------------------------------------------------------------------
(* Merged arrays.                                                          *)

Int32Array == ArrTy(I32, ArrayLen)

\* the fields of fs that are arrays of ArrayLen int32, and how many of them
\* come before field i
ArrayFields(fs) == {i \in 1..Len(fs) : fs[i] = Int32Array}
ArraysBefore(fs, i) == Cardinality({k \in ArrayFields(fs) : k < i})

\* C7: the fields of type array of ArrayLen int32 of a struct without direct
\* base (one segment) and without arrays of another type or length share one
\* array field: two of them an array of
\* 2 * ArrayLen int32.  The member mapping maps the first to (new field, 0) and
\* the next to (same new field, ArrayLen), and rewriteGEPIndexes of element j
\* of the second yields the element index ArrayLen + j of the merged array.
\* The merged array is a field of the new struct, or the mapped type itself
\* when the struct has no other field.
C7_ArrayMerging ==
    LET fs == structs[A].fields
        n == Cardinality(ArrayFields(fs))
        first == CHOOSE i \in ArrayFields(fs) : \A k \in ArrayFields(fs) : i <= k
        merged == ArrTy(I32, n * ArrayLen)
        mapped == typesMapping[A].mappedType
        mm == membersMappingData[A]
    IN  /\ stack = <<>> /\ A \in DOMAIN typesMapping /\ n >= 2
        /\ structs[A].directBase = NULL
        /\ ~structs[A].byteLayout /\ ~structs[A].asmJS
        /\ \A i \in 1..Len(fs) : isArrayTy(fs[i]) => fs[i] = Int32Array
        =>
        /\ IF n = Len(fs)
           THEN typesMapping[A] = Info(merged, "MERGED_MEMBER_ARRAYS_AND_COLLAPSED")
           ELSE /\ typesMapping[A].elementMappingKind = "MERGED_MEMBER_ARRAYS"
                /\ structs[mapped].fields[mm[first][1] + 1] = merged
                /\ ArrayFields(structs[mapped].fields) = {}
        /\ \A i \in ArrayFields(fs) :
              mm[i] = <<mm[first][1], ArrayLen * ArraysBefore(fs, i)>>
        /\ /\ gepOut # <<>> /\ gepOut.ptrType = PtrTy(A) /\ Len(gepOut.idxs) = 3
           /\ gepOut.idxs[2] + 1 \in ArrayFields(fs)
           => /\ gepOut.failed = {}
              /\ gepOut.newType = I32
              /\ Last(gepOut.newIndexes) =
                     ArrayLen * ArraysBefore(fs, gepOut.idxs[2] + 1) + gepOut.idxs[3]

\* the last element of field 1 of { [ArrayLen x i32], [ArrayLen x i32] } is the
\* last element of the merged array
C7_Witness ==
    /\ stack = <<>>
    /\ structs[A].fields = <<Int32Array, Int32Array>>
    /\ structs[A].directBase = NULL
    /\ A \in DOMAIN membersMappingData
    /\ membersMappingData[A] = <<<<0, 0>>, <<0, ArrayLen>>>>
    /\ typesMapping[A].mappedType = ArrTy(I32, 2 * ArrayLen)
    /\ gepOut # <<>>
    /\ gepOut.idxs = <<0, 1, ArrayLen - 1>>
    /\ gepOut.newIndexes = <<2 * ArrayLen - 1>>

-----------------------------------------------------------------------------
(* Byte layout structs.                                                    *)

Range(q) == {q[k] : k \in DOMAIN q}

\* the leaf scalar types a byte layout struct is viewed as: those of its own
\* fields and those of the types pointers to it are cast to
Views_(st) ==
    Range(LeafTypes(structs, st)) \cup
    UNION {Range(LeafTypes(structs, I.dst)) :
              I \in {J \in insts : J.op = "bitcast" /\ J.src = st}}

Flattened(st) ==
    st \in DOMAIN typesMapping
        /\ typesMapping[st].elementMappingKind = "BYTE_LAYOUT_TO_ARRAY"

\* C8: a byte layout struct whose views all have the same leaf type, whose size
\* is a multiple of the size of the leaf and whose struct fields are byte
\* layout structs that are flattened themselves, is mapped with the kind
\* BYTE_LAYOUT_TO_ARRAY to an array of size / leaf size leaves (24 bytes viewed
\* as float64: 3 float64), and to the leaf type itself when that quotient is 1.
\* A byte layout struct whose views disagree on the leaf type, whose size is not
\* a multiple, or with a struct field that is not flattened is not flattened.
C8_ByteLayoutFlattening ==
    stack = <<>> =>
       \A st \in {t \in DOMAIN typesMapping : isStructTy(t)} :
          structs[st].byteLayout /\ ~structs[st].client /\ ~structs[st].opaque =>
             LET leaf == CHOOSE l \in Views_(st) : TRUE
                 size == getTypeAllocSize(structs, st)
                 leafSize == getTypeAllocSize(structs, leaf)
                 subs == {f \in Range(structs[st].fields) : isStructTy(f)}
             IN  IF /\ Cardinality(Views_(st)) = 1
                    /\ size % leafSize = 0
                    /\ \A f \in subs : structs[f].byteLayout /\ Flattened(f)
                 THEN typesMapping[st] =
                         Info(IF size \div leafSize = 1 THEN leaf
                              ELSE ArrTy(leaf, size \div leafSize),
                              "BYTE_LAYOUT_TO_ARRAY")
                 ELSE ~Flattened(st)

\* 8 * MaxFields bytes of float64 fields, also accessed as float64, are an array
\* of MaxFields float64
C8_Witness ==
    /\ stack = <<>>
    /\ structs[A].byteLayout
    /\ structs[A].fields = [k \in 1..MaxFields |-> DoubleTy]
    /\ BitCast(A, DoubleTy) \in insts
    /\ A \in DOMAIN typesMapping
    /\ typesMapping[A] = Info(ArrTy(DoubleTy, MaxFields), "BYTE_LAYOUT_TO_ARRAY")

-----------------------------------------------------------------------------
(* Collapsed structs in address computations.                              *)

\* the indexes of idxs whose level (the type indexed into) is not collapsed
Kept(idxs, types) ==
    LET F[k \in 0..Len(idxs)] ==
            IF k = 0 THEN <<>>
            ELSE IF typesMapping[types[k]].elementMappingKind = "COLLAPSED" THEN F[k - 1]
            ELSE Append(F[k - 1], idxs[k])
    IN  F[Len(idxs)]

\* C9: a struct wrapping a struct of one field wrapping one int32 is mapped, with
\* the kind COLLAPSED, to int32, and in an address that goes through the two
\* struct levels ([0][0], after the index on the pointer) the two indexes
\* produce no output index.  In every address whose levels are IDENTICAL or
\* COLLAPSED the output is the indexes of the IDENTICAL levels.
C9_TransitiveCollapse ==
    stack = <<>> =>
       /\ /\ A \in DOMAIN typesMapping /\ B \in DOMAIN structs
          /\ structs[A] = Plain(<<B>>, structs[A].name)
          /\ structs[B] = Plain(<<I32>>, structs[B].name)
          /\ {A, B} \cap DOMAIN downcastSourceToDestinationsMapping = {}
          => /\ typesMapping[A] = Info(I32, "COLLAPSED")
             /\ typesMapping[B] = Info(I32, "COLLAPSED")
             /\ gepOut # <<>> /\ gepOut.idxs = <<0, 0, 0>> => gepOut.newIndexes = <<0>>
       /\ gepOut # <<>> =>
             LET types == WalkedTypes(structs, gepOut.ptrType, gepOut.idxs)
             IN  /\ \A k \in 1..Len(gepOut.idxs) :
                       typesMapping[types[k]].elementMappingKind \in {"IDENTICAL", "COLLAPSED"}
                 /\ ~isArrayTy(typesMapping[gepOut.oldType].mappedType)
                 => /\ gepOut.failed = {}
                    /\ gepOut.newIndexes = Kept(gepOut.idxs, types)

\* the address of the int32 inside A { B { i32 } } has been rewritten
C9_Witness ==
    /\ stack = <<>>
    /\ structs[A].fields = <<B>> /\ structs[B].fields = <<I32>>
    /\ A \in DOMAIN typesMapping
    /\ typesMapping[A] = Info(I32, "COLLAPSED")
    /\ gepOut # <<>>
    /\ gepOut.idxs = <<0, 0, 0>>
    /\ gepOut.oldType = I32
    /\ gepOut.newIndexes = <<0>>

-----------------------------------------------------------------------------
(* Idempotence.                                                            *)

\* C10: rewriteType over a type graph that is the output of a previous complete
\* rewrite yields the kind IDENTICAL for every type of that graph.
C10_Idempotent ==
    run > 1 /\ stack = <<>> =>
       \A t \in DOMAIN typesMapping : typesMapping[t].elementMappingKind = "IDENTICAL"

-----------------------------------------------------------------------------
(* Constants.                                                              *)

\* the index lists that lead from a value of type t to its scalars
RECURSIVE LeafPaths(_, _)
LeafPaths(S, t) ==
    IF isStructTy(t)
    THEN UNION {{<<k - 1>> \o p : p \in LeafPaths(S, S[t].fields[k])} :
                   k \in 1..Len(S[t].fields)}
    ELSE IF isArrayTy(t)
    THEN UNION {{<<k>> \o p : p \in LeafPaths(S, getElementType(t))} :
                   k \in 0..(getNumElements(t) - 1)}
    ELSE {<<>>}

NoConstant == <<"none", NULL, <<>>>>

\* the constant found in c by following the indexes
RECURSIVE ReadConstant(_, _, _)
ReadConstant(S, c, idxs) ==
    IF idxs = <<>> THEN c
    ELSE LET inner == getIndexedType(S, getType(c), <<Head(idxs)>>)
         IN  IF c[1] \in {"struct", "array"}
             THEN IF Head(idxs) < Len(c[3])
                  THEN ReadConstant(S, getOperand(c, Head(idxs)), Tail(idxs))
                  ELSE NoConstant
             ELSE IF isPointerTy(getType(c)) \/ inner = NULL THEN NoConstant
             ELSE IF c[1] = "zero" THEN ReadConstant(S, getNullValue(inner), Tail(idxs))
             ELSE IF c[1] = "undef" THEN ReadConstant(S, UndefValue(inner), Tail(idxs))
             ELSE NoConstant

HasUndef(S, c) ==
    \E p \in LeafPaths(S, getType(c)) : ReadConstant(S, c, p)[1] = "undef"

\* the address of the scalar at path p of the old initializer, rewritten
FieldAddress(p) ==
    RewriteGEP(structs, typesMapping, membersMappingData, baseTypesForByteLayout,
               PtrTy(getType(constOut.old)), <<0>> \o p)

FieldAddressReady(p) ==
    GEPReady(structs, typesMapping, membersMappingData, baseTypesForByteLayout,
             PtrTy(getType(constOut.old)), <<0>> \o p)

\* what a load through the rewritten address reads in the new initializer; a
\* global that became an array is addressed by its first element (lines 2355-2364)
ReadBack(p) ==
    LET g == FieldAddress(p)
        info == Lookup(typesMapping, PtrTy(getType(constOut.old)))
        leaf == ReadConstant(structs, constOut.new,
                             IF info.elementMappingKind = "POINTER_FROM_ARRAY"
                             THEN g.newIndexes ELSE Tail(g.newIndexes))
    IN  IF isIntegerTy(g.oldType) /\ isMergedPointer(g) /\ leaf[1] = "int"
        THEN <<"int", MergedLoad(leaf[3], getBitWidth(g.oldType), g.mergedIntegerOffset)>>
        ELSE <<leaf[1], leaf[3]>>

RoundTrip(p) ==
    LET direct == ReadConstant(structs, constOut.old, p)
    IN  direct[1] = "undef"
            \/ (FieldAddress(p).failed = {} /\ ReadBack(p) = <<direct[1], direct[3]>>)

\* C11: the initializer rewritten by rewriteConstant, read through the index path
\* and the residual bit offset that rewriteGEPIndexes gives for a field, holds in
\* every field the value the old initializer holds in it.
C11_ConstantRoundTrip ==
    constOut # <<>> =>
        /\ constOut.failed = {}
        /\ \A p \in LeafPaths(structs, getType(constOut.old)) :
              FieldAddressReady(p) => RoundTrip(p)

\* the round trip of the initializers all of whose scalars are defined, in the
\* modules whose rewriteType calls agree (C1)
ConstantRoundTripDefined ==
    constOut # <<>> /\ ~HasUndef(structs, constOut.old) /\ C1_CallsAgree =>
        C11_ConstantRoundTrip

-----------------------------------------------------------------------------
(* Escaping fields.                                                        *)

\* old field k of struct D is the field i of struct st: seen through the chain
\* of direct bases, or as the only field of a struct that D holds by value
RECURSIVE HoldsField(_, _, _, _, _)
HoldsField(S, D, k, st, i) ==
    \/ k = i /\ CurBase(S, D, k) = st
    \/ LET T == S[D].fields[k + 1]
       IN  isStructTy(T) /\ Len(S[T].fields) = 1 /\ HoldsField(S, T, 0, st, i)

\* old field k of D is an integer in the new layout
IntegerField(D, k) ==
    isIntegerTy(Lookup(typesMapping, structs[D].fields[k + 1]).mappedType)

\* old field k of struct D has a new field of its own
OwnField(D, k) ==
    LET mm == membersMappingData[D]
    IN  /\ mm[k + 1][2] = 0
        /\ \A j \in 1..Len(mm) : j # k + 1 => mm[j][1] # mm[k + 1][1]

\* C12: a field recorded in the escape set is never bit-packed: in the member
\* mapping of every struct that contains it, it has bit offset 0 in a new field
\* into which no other old field is mapped.
C12_EscapingFieldsNotPacked ==
    \A e \in escapingFields : \A D \in DOMAIN membersMappingData :
        \A k \in 0..(Len(structs[D].fields) - 1) :
            HoldsField(structs, D, k, e[1], e[2]) /\ IntegerField(D, k) => OwnField(D, k)

\* the same for the structs that contain the field as their own or as an
\* inherited one
EscapingOwnFieldsNotPacked ==
    \A e \in escapingFields : \A D \in DOMAIN membersMappingData :
        e[2] < Len(structs[D].fields) /\ CurBase(structs, D, e[2]) = e[1]
            /\ IntegerField(D, e[2]) => OwnField(D, e[2])

-----------------------------------------------------------------------------
(* Merged fields and direct bases.                                         *)

\* the old fields i < j of struct st (counted from 1) that the member mapping
\* table maps to the same new field
MergedPairs(st) ==
    LET mm == membersMappingData[st]
    IN  {p \in (1..Len(mm)) \X (1..Len(mm)) : p[1] < p[2] /\ mm[p[1]][1] = mm[p[2]][1]}

\* the direct-base segment of old field i of struct st (counted from 1)
Segment(st, i) == CurBase(structs, st, i - 1)

\* C13: within one struct, for any two old fields i < j that the member
\* mapping table maps to the same new field, the recorded offset of j is
\* strictly greater than that of i, and i and j belong to the same direct-base
\* segment.
C13_OffsetsStrictlyIncrease ==
    \A st \in DOMAIN membersMappingData : \A p \in MergedPairs(st) :
        LET mm == membersMappingData[st]
        IN  /\ mm[p[1]][2] < mm[p[2]][2]
            /\ Segment(st, p[1]) = Segment(st, p[2])

\* the offset of j is not smaller than that of i, it is greater when old field
\* i has a size other than zero, and i and j belong to the same direct-base
\* segment
C13_OffsetsIncrease ==
    \A st \in DOMAIN membersMappingData : \A p \in MergedPairs(st) :
        LET mm == membersMappingData[st]
        IN  /\ mm[p[1]][2] <= mm[p[2]][2]
            /\ getTypeAllocSize(structs, structs[st].fields[p[1]]) # 0 =>
                    mm[p[1]][2] < mm[p[2]][2]
            /\ Segment(st, p[1]) = Segment(st, p[2])

\* a struct with a direct base: two of its fields are merged, and a field of
\* the same type on the other side of the limit of the direct base is not
\* merged with them
C13_Witness ==
    \E st \in DOMAIN membersMappingData :
        /\ structs[st].directBase # NULL
        /\ \E p \in MergedPairs(st) : \E k \in 1..Len(structs[st].fields) :
              /\ Segment(st, k) # Segment(st, p[1])
              /\ structs[st].fields[k] = structs[st].fields[p[1]]
              /\ membersMappingData[st][p[2]][2] > 0

-----------------------------------------------------------------------------
(* Pointers to arrays.                                                     *)

\* the pointer types of the memo table
MappedPointers == {t \in DOMAIN typesMapping : isPointerTy(t)}

\* the entry of pointer type t is the one the entry of its pointee asks for
FromArray(t) ==
    LET newType == Lookup(typesMapping, getElementType(t)).mappedType
    IN  isArrayTy(newType) =>
            typesMapping[t] = Info(PtrTy(getElementType(newType)), "POINTER_FROM_ARRAY")

\* C14: for every pointer type in the memo table, if the rewritten pointee is
\* an array the mapping is a pointer to the element type of the array with kind
\* POINTER_FROM_ARRAY, and no mapped pointer type has an array type as its
\* pointee.
C14_NoPointerToArray ==
    stack = <<>> =>
        \A t \in MappedPointers :
            /\ FromArray(t)
            /\ isPointerTy(typesMapping[t].mappedType)
            /\ ~isArrayTy(getElementType(typesMapping[t].mappedType))

\* the same for the modules in which all the calls on a type agree
NoPointerToArrayIfCallsAgree == C1_CallsAgree => C14_NoPointerToArray

-----------------------------------------------------------------------------
(* The to-do set of functions.                                             *)

\* the functions put in the to-do set by runOnModule
Inserted == {e[2] : e \in {d \in Range(events) : d[1] = "insert"}}

\* the calls of rewriteFunction, in order
RewriteFunctionCalls == SelectSeq(events, LAMBDA e : e[1] = "rewriteFunction")

\* the functions rewriteFunction was called on
RewrittenFunctions == {e[2] : e \in Range(RewriteFunctionCalls)}

\* the position in the history of the call of rewriteFunction on F
CallOf(F) == CHOOSE k \in DOMAIN events : events[k] = <<"rewriteFunction", F>>

-----------------------------------------------------------------------------
(* Intrinsics whose types change.                                          *)

\* the declarations made by rewriteIntrinsic
Synthesized == {e[2] : e \in {d \in Range(events) : d[1] = "getDeclaration"}}

\* the redirections of the calls of one intrinsic to another, with their
\* positions in the history
Redirections == {k \in DOMAIN events : events[k][1] = "redirect"}

\* a variant that was in the module is rewritten before calls are redirected
\* to it
RewrittenBeforeRedirect ==
    \A k \in Redirections :
        events[k][3] \in Inserted =>
            /\ events[k][3] \in RewrittenFunctions
            /\ CallOf(events[k][3]) < k

-----------------------------------------------------------------------------
(* The analysis tables.                                                    *)

\* a step of the pass after gatherAllTypesInfo has finished
AfterGather == phase # "gather" /\ run' = run

-----------------------------------------------------------------------------
(* Old and new struct types.                                               *)

\* the struct types that rewriteType has not created in this step or before
OldStructs == DOMAIN structs \ newStructTypes'

Unnamed(b) == [b EXCEPT !.name = ""]

\* the mappings to a struct that is not the old type are mappings to a struct
\* created by rewriteType
MappedToNewStructs ==
    \A t \in DOMAIN typesMapping :
        LET mappedType == typesMapping[t].mappedType
        IN  mappedType # t /\ isStructTy(mappedType) => mappedType \in newStructTypes

StructsReplaced ==
    stack = <<>> =>
        \A t \in DOMAIN typesMapping :
            isStructTy(t)
                /\ typesMapping[t].elementMappingKind \in {"IDENTICAL", "MERGED_MEMBER_ARRAYS"} =>
                    IF structs[t].client \/ structs[t].opaque
                    THEN typesMapping[t].mappedType = t
                    ELSE typesMapping[t].mappedType \in newStructTypes

-----------------------------------------------------------------------------
(* Arrays of arrays.                                                       *)

\* the array types of the memo table whose rewritten element type is an array
ArraysOfArrays ==
    {t \in DOMAIN typesMapping :
        isArrayTy(t) /\ isArrayTy(Lookup(typesMapping, getElementType(t)).mappedType)}

\* the rewritten address ends with the index pair (i, j) of an array of arrays
\* that has been flattened
EndsInFlattened(g) ==
    LET n == Len(g.idxs)
        types == WalkedTypes(structs, g.ptrType, g.idxs)
    IN  /\ g.rewritten
        /\ n >= 3
        /\ isArrayTy(types[n - 1])
        /\ isArrayTy(types[n])
        /\ typesMapping[types[n - 1]].elementMappingKind = "FLATTENED_ARRAY"
        /\ typesMapping[types[n]].elementMappingKind = "IDENTICAL"

\* the element offset of the array in the new field it is part of
OffsetInField(g) ==
    LET n == Len(g.idxs)
        types == WalkedTypes(structs, g.ptrType, g.idxs)
    IN  IF isStructTy(types[n - 2]) /\ types[n - 2] \in DOMAIN membersMappingData
        THEN membersMappingData[types[n - 2]][g.idxs[n - 2] + 1][2]
        ELSE 0

\* C18: an array of N elements whose rewritten element type is an array of M
\* elements of T maps to an array of N*M elements of T with kind
\* FLATTENED_ARRAY, no mapped array type has an array element type, and
\* rewriteGEPIndexes turns the index pair (i, j) into the single index
\* i*M + j, added to the offset of the array in its new field.
C18_ArrayFlattening ==
    stack = <<>> =>
        /\ \A t \in ArraysOfArrays :
              LET newType == typesMapping[getElementType(t)].mappedType
              IN  typesMapping[t] =
                      Info(ArrTy(getElementType(newType),
                                 getNumElements(t) * getNumElements(newType)),
                           "FLATTENED_ARRAY")
        /\ \A t \in DOMAIN typesMapping :
              isArrayTy(typesMapping[t].mappedType) =>
                  ~isArrayTy(getElementType(typesMapping[t].mappedType))
        /\ gepOut # <<>> /\ EndsInFlattened(gepOut) =>
              LET n == Len(gepOut.idxs)
                  types == WalkedTypes(structs, gepOut.ptrType, gepOut.idxs)
                  M == getNumElements(typesMapping[types[n]].mappedType)
              IN  /\ gepOut.failed = {}
                  /\ Last(gepOut.newIndexes) =
                        OffsetInField(gepOut) + gepOut.idxs[n - 1] * M + gepOut.idxs[n]
                  /\ gepOut.newType = I32

\* the memo table is as C18 says whenever every call on a type has returned
\* the same mapping (C1)
ArrayFlatteningIfCallsAgree ==
    C1_CallsAgree => C18_ArrayFlattening

\* the address of element (ArrayLen - 1, RowLen - 1) of an array of arrays
\* that is merged with the array before it
AddressInFlattenedArray ==
    /\ stack = <<>>
    /\ gepOut # <<>>
    /\ EndsInFlattened(gepOut)
    /\ OffsetInField(gepOut) = ArrayLen
    /\ gepOut.idxs = <<0, 1, ArrayLen - 1, RowLen - 1>>
    /\ gepOut.newIndexes = <<ArrayLen + (ArrayLen - 1) * RowLen + RowLen - 1>>

-----------------------------------------------------------------------------
(* C19: the levels of an address whose struct has merged members.          *)

MergedKinds == {"MERGED_MEMBER_ARRAYS", "MERGED_MEMBER_ARRAYS_AND_COLLAPSED"}

KindOf(t) == typesMapping[t].elementMappingKind

\* the levels of g the loop of rewriteGEPIndexes handles one by one: those
\* not behind a byte layout level, which handles all that follow it.  Level k
\* is the type WalkedTypes gives at k, indexed by the k-th index.
WalkedLevels(g) ==
    LET types == WalkedTypes(structs, g.ptrType, g.idxs)
    IN  {k \in 1..Len(g.idxs) :
            \A j \in 1..(k - 1) : KindOf(types[j]) # "BYTE_LAYOUT_TO_ARRAY"}

\* the entry of membersMappingData for the field level k of g addresses
MappedMemberAt(g, k) ==
    membersMappingData[WalkedTypes(structs, g.ptrType, g.idxs)[k]][g.idxs[k] + 1]

\* the field level k of g addresses has become (part of) an integer
IsMergedIntAt(g, k) ==
    isIntegerTy(typesMapping[WalkedTypes(structs, g.ptrType, g.idxs)[k + 1]].mappedType)

\* the bit offset level k of g adds to the residual
PackedOffsetAt(g, k) ==
    IF /\ k \in WalkedLevels(g)
       /\ KindOf(WalkedTypes(structs, g.ptrType, g.idxs)[k]) \in MergedKinds
       /\ IsMergedIntAt(g, k)
    THEN MappedMemberAt(g, k)[2]
    ELSE 0

RECURSIVE PackedOffsets(_, _)
PackedOffsets(g, k) == IF k = 0 THEN 0 ELSE PackedOffsetAt(g, k) + PackedOffsets(g, k - 1)

\* an address behind a pointer to a struct of kind MERGED_MEMBER_ARRAYS
AtMergedStruct(g) ==
    /\ Len(g.idxs) >= 2
    /\ isPointerTy(g.ptrType) /\ isStructTy(getElementType(g.ptrType))
    /\ KindOf(g.ptrType) = "IDENTICAL"
    /\ KindOf(getElementType(g.ptrType)) = "MERGED_MEMBER_ARRAYS"

\* C19: for a level whose struct has kind MERGED_MEMBER_ARRAYS,
\* rewriteGEPIndexes emits the mapped field index in place of the old one;
\* the bit offset of a field that became part of a packed integer is added to
\* the residual and no index is emitted for it; a non-zero element offset of
\* a merged array member is emitted as an index to which the next index is
\* added; the value returned is the sum of the bit offsets of the packed
\* integers over all levels walked.
C19_MergedMemberArrays ==
    gepOut # <<>> /\ gepOut.rewritten =>
        /\ gepOut.mergedIntegerOffset = PackedOffsets(gepOut, Len(gepOut.idxs))
        /\ AtMergedStruct(gepOut) =>
              LET g == gepOut
                  m == MappedMemberAt(g, 2)
                  field == WalkedTypes(structs, g.ptrType, g.idxs)[3]
                  mapped == typesMapping[field].mappedType
              IN  /\ g.failed = {}
                  /\ SubSeq(g.newIndexes, 1, 2) = <<g.idxs[1], m[1]>>
                  /\ IsMergedIntAt(g, 2) =>
                        /\ g.newIndexes = <<g.idxs[1], m[1]>>
                        /\ Len(g.idxs) = 2 => g.mergedIntegerOffset = m[2]
                  /\ ~IsMergedIntAt(g, 2) /\ m[2] # 0 =>
                        /\ isArrayTy(mapped)
                        /\ Len(g.idxs) = 2 => g.newIndexes = <<g.idxs[1], m[1], m[2]>>
                        /\ Len(g.idxs) = 3 /\ KindOf(field) = "IDENTICAL" =>
                              g.newIndexes = <<g.idxs[1], m[1], m[2] + g.idxs[3]>>
                  /\ ~IsMergedIntAt(g, 2) /\ m[2] = 0 /\ Len(g.idxs) = 2 =>
                        g.newIndexes = <<g.idxs[1], m[1]>>
                            \o (IF isArrayTy(mapped) THEN <<0>> ELSE <<>>)

\* the address of the second integer of B in A { i8, B, double }, B { i8, i8 }:
\* B is the integer at bit 8 of the first field of the new A, and the second
\* integer of B is at bit 8 of B
C19_Witness ==
    /\ gepOut # <<>>
    /\ gepOut.idxs = <<0, 1, 1>>
    /\ AtMergedStruct(gepOut)
    /\ KindOf(B) = "MERGED_MEMBER_ARRAYS_AND_COLLAPSED"
    /\ gepOut.newIndexes = <<0, 0>>
    /\ gepOut.mergedIntegerOffset = 16

\* an address in the second of two merged arrays that have a double between them
AddressInMergedArray ==
    /\ gepOut # <<>>
    /\ AtMergedStruct(gepOut)
    /\ gepOut.idxs = <<0, 2, ArrayLen - 1>>
    /\ gepOut.newIndexes = <<0, 0, 2 * ArrayLen - 1>>

-----------------------------------------------------------------------------
(* C23: the cast table does not depend on the order of the instructions.   *)

\* the instructions of is that are casts from st
CastsFrom(is, st) == {I \in is : I.op \in {"downcast", "virtualcast"} /\ I.src = st}

\* the casts that forbid the collapse of their source: a down-cast with an
\* offset that is not the constant 0, and every virtual cast
Disqualifies(I) == I.op = "virtualcast" \/ (I.op = "downcast" /\ ~I.zero)

\* the table a set of instructions gives, whatever their order
CastTable(is) ==
    [st \in {I.src : I \in {J \in is : J.op \in {"downcast", "virtualcast"}}} |->
        IF \E I \in CastsFrom(is, st) : Disqualifies(I) THEN {}
        ELSE {I.dst : I \in CastsFrom(is, st)}]

\* C23: once a struct has been seen as the source of a down-cast with an
\* offset or of a virtual cast it has an empty destination set, whatever
\* zero-offset down-casts of it have been or will be seen; after every
\* instruction the table is the one the set of instructions seen so far
\* determines, so the final table is the same for every order.
C23_CastFactsPermanent ==
    /\ \A I \in seen : Disqualifies(I) =>
          /\ I.src \in DOMAIN downcastSourceToDestinationsMapping
          /\ downcastSourceToDestinationsMapping[I.src] = {}
    /\ downcastSourceToDestinationsMapping = CastTable(seen)

\* a zero-offset down-cast of C and a down-cast of C with an offset have both
\* been seen, the analysis is over, and C has no destination
C23_Witness ==
    /\ phase # "gather"
    /\ {Downcast(C, B, TRUE), Downcast(C, A, FALSE)} \subseteq seen
    /\ downcastSourceToDestinationsMapping = (C :> {})

-----------------------------------------------------------------------------
(* C24: the leaf type table does not depend on the order of the views.     *)

\* rewriteType(st) has passed line 1261, which records st as a view of itself
SelfViewRecorded(st) ==
    /\ ~structs[st].client /\ ~structs[st].opaque
    /\ \/ st \in DOMAIN typesMapping
       \/ \E k \in 1..Len(stack) : stack[k].t = st /\ stack[k].pc # "enter"

\* the views of the byte layout struct st recorded so far
RecordedViews(st) ==
    {I.dst : I \in {J \in seen : J.op = "bitcast" /\ J.src = st}}
        \cup (IF SelfViewRecorded(st) THEN {st} ELSE {})

RecordedLeaves(st) == UNION {Range(LeafTypes(structs, v)) : v \in RecordedViews(st)}

\* C24: the entry of a byte layout struct in baseTypesForByteLayout is the
\* leaf scalar type of the views recorded so far if they all have the same
\* one, and NULL if two leaves differ; it is a function of the set of views,
\* so a NULL entry stays NULL and the order of the views does not matter.
C24_LeafTableOrderIndependent ==
    /\ \A st \in DOMAIN baseTypesForByteLayout : structs[st].byteLayout
    /\ \A st \in {t \in DOMAIN structs : structs[t].byteLayout} :
          LET leaves == RecordedLeaves(st)
          IN  IF leaves = {} THEN st \notin DOMAIN baseTypesForByteLayout
              ELSE /\ st \in DOMAIN baseTypesForByteLayout
                   /\ baseTypesForByteLayout[st] =
                         IF Cardinality(leaves) = 1 THEN CHOOSE l \in leaves : TRUE
                         ELSE NULL

\* a struct of one float64 viewed as float64 and as int32: the entry is NULL
\* after the two casts and is still NULL after the struct has been recorded
\* as a view of itself
C24_Witness ==
    /\ stack = <<>>
    /\ structs[A].byteLayout /\ structs[A].fields = <<DoubleTy>>
    /\ seen = {BitCast(A, DoubleTy), BitCast(A, I32)}
    /\ A \in DOMAIN typesMapping
    /\ baseTypesForByteLayout[A] = NULL

-----------------------------------------------------------------------------
(* C25: the structs that must keep their wrapper.                          *)

CollapsedKinds == {"COLLAPSED", "MERGED_MEMBER_ARRAYS_AND_COLLAPSED"}

\* the only field of st is a pointer to a client type
HoldsClientPointer(st) ==
    /\ Len(structs[st].fields) = 1
    /\ isPointerTy(structs[st].fields[1])
    /\ isClientType(structs, getElementType(structs[st].fields[1]))

\* the struct is opaque, client, asm.js, byte layout or exported, or the source
\* of a down-cast with an offset or of a virtual cast, or its only field is
\* the int8 of an empty struct or a pointer to something that is not a client type
KeepsWrapper(st) ==
    LET b == structs[st]
    IN  \/ b.opaque \/ b.client \/ b.asmJS \/ b.byteLayout \/ b.exported
        \/ /\ st \in DOMAIN downcastSourceToDestinationsMapping
           /\ downcastSourceToDestinationsMapping[st] = {}
        \/ /\ Len(b.fields) = 1
           /\ \/ b.fields[1] = IntTy(8)
              \/ isPointerTy(b.fields[1]) /\ ~HoldsClientPointer(st)

\* C25: a struct that is opaque, a client type, asm.js, byte layout, exported
\* or an unsafe down-cast source, or whose only field is the placeholder int8
\* or a pointer other than a pointer to a client type, never has the kind
\* COLLAPSED or MERGED_MEMBER_ARRAYS_AND_COLLAPSED.
C25_WrappersKept ==
    \A st \in {t \in DOMAIN typesMapping : isStructTy(t)} :
        KeepsWrapper(st) => typesMapping[st].elementMappingKind \notin CollapsedKinds

\* the same for the structs whose only field is not a pointer to a client type
WrappersKeptButClientPointers ==
    \A st \in {t \in DOMAIN typesMapping : isStructTy(t)} :
        KeepsWrapper(st) /\ ~HoldsClientPointer(st) =>
            typesMapping[st].elementMappingKind \notin CollapsedKinds

-----------------------------------------------------------------------------
(* C27: the memo table at the end of the pass.                             *)

\* the pass has rewritten every type of the module and no call is in progress
PassFinished == stack = <<>> /\ phase # "gather" /\ roots \subseteq DOMAIN typesMapping

Mapped(t) == typesMapping[t].mappedType

PointersConsistent ==
    \A P \in {t \in DOMAIN typesMapping : isPointerTy(t)} :
        getElementType(P) \in DOMAIN typesMapping =>
            LET E == Mapped(getElementType(P))
            IN  Mapped(P) = PtrTy(IF isArrayTy(E) THEN getElementType(E) ELSE E)

ArraysConsistent ==
    \A T \in {t \in DOMAIN typesMapping : isArrayTy(t)} :
        getElementType(T) \in DOMAIN typesMapping =>
            LET E == Mapped(getElementType(T))
            IN  Mapped(T) =
                    IF isArrayTy(E)
                    THEN ArrTy(getElementType(E), getNumElements(T) * getNumElements(E))
                    ELSE ArrTy(E, getNumElements(T))

\* the structs that are replaced by a new struct with as many fields
FieldsConsistent ==
    \A st \in {t \in DOMAIN typesMapping : isStructTy(t)} :
        /\ typesMapping[st].elementMappingKind = "IDENTICAL"
        /\ Mapped(st) \in newStructTypes
        => LET old == structs[st].fields
               new == structs[Mapped(st)].fields
           IN  /\ Len(new) = Len(old)
               /\ \A k \in 1..Len(old) :
                     old[k] \in DOMAIN typesMapping /\ new[k] = Mapped(old[k])

\* C27: when the pass finishes, the mapping of every pointer type is the
\* pointer to the final mapping of its pointee (to its element type when
\* that is an array), the mapping of every array type is derived from the
\* final mapping of its element type, and every field of a new struct is the
\* final mapping of the old field: no entry is left over from a tentative
\* mapping of a struct whose collapse was aborted.
C27_MemoTableConsistent ==
    PassFinished => PointersConsistent /\ ArraysConsistent /\ FieldsConsistent

\* the same on the modules where every call on a type has returned the same
\* mapping (C1)
MemoTableConsistentIfCallsAgree ==
    C1_CallsAgree => C27_MemoTableConsistent

-----------------------------------------------------------------------------
(* C28: the argument of rewriteType is an old type.                        *)

\* C28: rewriteType is never called on a struct type that rewriteType has
\* created: the assertion of line 1230 holds in every call.
C28_NeverCalledOnNewStruct == "newStructTypes.count" \notin failedAsserts

-----------------------------------------------------------------------------
(* C29: the member mapping of a struct with merged fields.                 *)

\* the structs whose rewriting is over and has merged fields
MergedStructs ==
    {st \in DOMAIN membersMappingData :
        st \in DOMAIN typesMapping /\ typesMapping[st].elementMappingKind \in MergedKinds}

\* the fields of the new struct; the merged field itself when the struct is
\* collapsed to it
NewFields(st) ==
    IF typesMapping[st].elementMappingKind = "MERGED_MEMBER_ARRAYS"
    THEN structs[Mapped(st)].fields
    ELSE <<Mapped(st)>>

\* the bits of an integer, the elements of an array
SizeOf(t) == IF isIntegerTy(t) THEN getBitWidth(t) ELSE IF isArrayTy(t) THEN getNumElements(t) ELSE 0

\* the old fields of st mapped to the new field j, and the sizes of the
\* types they are rewritten to
MappedTo(st, j) == {k \in 1..Len(structs[st].fields) : membersMappingData[st][k][1] = j}
NewSize(st, k) == SizeOf(Mapped(structs[st].fields[k]))

RECURSIVE SizesMappedTo(_, _, _)
SizesMappedTo(st, j, n) ==
    IF n = 0 THEN 0
    ELSE (IF n \in MappedTo(st, j) THEN NewSize(st, n) ELSE 0) + SizesMappedTo(st, j, n - 1)

\* C29: the member mapping of a struct has one entry per old field (the
\* assertion of line 1432 holds); for a struct with merged fields every entry
\* names a field of the new struct, a new integer field shared by several old
\* fields is as wide as they are together and at most 32 bits wide, with
\* disjoint bit ranges, and a new array field shared by several old fields is
\* as long as they are together.
C29_MemberMappingWellFormed ==
    /\ "membersMapping.size" \notin failedAsserts
    /\ stack = <<>> =>
          \A st \in MergedStructs :
              LET mm == membersMappingData[st]
                  old == structs[st].fields
                  new == NewFields(st)
              IN  /\ Len(mm) = Len(old)
                  /\ \A k \in 1..Len(old) : mm[k][1] < Len(new)
                  /\ \A j \in 0..(Len(new) - 1) :
                        LET ks == MappedTo(st, j)
                        IN  Cardinality(ks) > 1 =>
                              /\ SizeOf(new[j + 1]) = SizesMappedTo(st, j, Len(old))
                              /\ isIntegerTy(new[j + 1]) =>
                                    /\ getBitWidth(new[j + 1]) <= WordBits
                                    /\ \A k1, k2 \in ks : k1 < k2 =>
                                          \/ mm[k1][2] + NewSize(st, k1) <= mm[k2][2]
                                          \/ mm[k2][2] + NewSize(st, k2) <= mm[k1][2]

\* A { i8, i16, double } has become { i24, double }: the two integers share
\* the bits 0..7 and 8..23 of new field 0, the double is new field 1
C29_Witness ==
    /\ stack = <<>>
    /\ A \in MergedStructs
    /\ structs[A].fields = <<I8, I16, DoubleTy>>
    /\ membersMappingData[A] = <<<<0, 0>>, <<0, 8>>, <<1, 0>>>>
    /\ NewFields(A) = <<IntTy(24), DoubleTy>>

-----------------------------------------------------------------------------
(* C30: addresses inside a byte layout struct that has become an array.    *)

\* the offset in bytes, in the old layout, of the element the indexes address
RECURSIVE ByteOffset(_, _, _)
ByteOffset(S, t, idxs) ==
    IF idxs = <<>> THEN 0
    ELSE (IF isStructTy(t) THEN getElementOffset(S, t, Head(idxs))
          ELSE Head(idxs) * getTypeAllocSize(S, getElementType(t)))
         + ByteOffset(S, IndexedType(S, t, Head(idxs)), Tail(idxs))

\* an address behind a pointer to a struct of kind BYTE_LAYOUT_TO_ARRAY
IntoByteLayout(g) ==
    /\ Len(g.idxs) >= 2
    /\ isPointerTy(g.ptrType) /\ isStructTy(getElementType(g.ptrType))
    /\ Flattened(getElementType(g.ptrType))

\* the index list of an address into a byte layout struct: one index, the
\* offset in bytes by the size of the leaf type, with no failed assertion
\* and no residual
ByteLayoutIndex(g) ==
    LET st == getElementType(g.ptrType)
        leafSize == getTypeAllocSize(structs, baseTypesForByteLayout[st])
        offset == ByteOffset(structs, g.ptrType, g.idxs)
    IN  /\ g.failed = {}
        /\ offset % leafSize = 0
        /\ g.newIndexes = <<offset \div leafSize>>
        /\ g.mergedIntegerOffset = 0

\* C30: in an address into a struct of kind BYTE_LAYOUT_TO_ARRAY no
\* divisibility assertion fails, the single index is the byte offset of the
\* addressed element by the size of the leaf type, the residual is 0, and a
\* zero index is added at the end exactly when the target type is an array.
C30_ByteLayoutAddress ==
    gepOut # <<>> /\ IntoByteLayout(gepOut) =>
        /\ ByteLayoutIndex(gepOut)
        /\ gepOut.zeroAdded <=> isArrayTy(Mapped(gepOut.oldType))

\* C30 as the code has it: no zero index is added when the struct has become
\* a single element of the leaf type and not an array (the walk stops at line
\* 1884 without touching the indexes)
C30_ByteLayoutAddressButSingleElement ==
    gepOut # <<>> /\ IntoByteLayout(gepOut) =>
        /\ ByteLayoutIndex(gepOut)
        /\ gepOut.zeroAdded <=>
              /\ isArrayTy(Mapped(gepOut.oldType))
              /\ isArrayTy(Mapped(getElementType(gepOut.ptrType)))

\* the address of the last element of the array in A { float64, [RowLen x
\* float64] }: element RowLen of the array A has become, and no zero added
C30_Witness ==
    /\ gepOut # <<>> /\ IntoByteLayout(gepOut)
    /\ structs[A].fields = <<DoubleTy, ArrTy(DoubleTy, RowLen)>>
    /\ gepOut.idxs = <<0, 1, RowLen - 1>>
    /\ gepOut.newIndexes = <<RowLen>>
    /\ ~gepOut.zeroAdded

-----------------------------------------------------------------------------
(* rewriteFunction: the order in which the blocks of a function are        *)
(* rewritten.  The blocks are numbered as they are in the function, the    *)
(* entry block is block 1, and a function without blocks is a declaration. *)

NumBlocks == 3

\* the main variables that the walk over the blocks, the handling of a call
\* and the driver of the pass leave alone
typeVars == <<structs, insts, seen, geps, accesses, run, downcastSourceToDestinationsMapping,
              baseTypesForByteLayout, escapingFields, membersMappingData, newStructTypes,
              steps, stack, ret, calls, nCalls, gepOut, mem, written, loaded, roots,
              constOut>>

NoTypes ==
    /\ structs = <<>> /\ insts = {} /\ seen = {} /\ geps = {} /\ accesses = {}
    /\ run = 1 /\ downcastSourceToDestinationsMapping = <<>>
    /\ baseTypesForByteLayout = <<>> /\ escapingFields = {}
    /\ membersMappingData = <<>> /\ newStructTypes = {} /\ steps = 0 /\ stack = <<>>
    /\ ret = Info(NULL, "IDENTICAL") /\ calls = {} /\ nCalls = 0 /\ gepOut = <<>>
    /\ mem = <<>> /\ written = <<>> /\ loaded = <<>> /\ roots = {} /\ constOut = <<>>

\* the successors of a terminator: none (ret, unreachable), one (br) or two
\* (conditional br, possibly twice the same block)
Terminators(n) == {<<>>} \cup {<<a>> : a \in 1..n} \cup {<<a, b>> : a, b \in 1..n}

\* lines 2083-2088 with every successor pushed, used or not
RECURSIVE PushSuccessorsAll(_, _)
PushSuccessorsAll(d, succs) ==
    IF succs = <<>> THEN d
    ELSE PushSuccessorsAll([order |-> Append(d.order, Head(succs)),
                            used |-> d.used \cup {Head(succs)}], Tail(succs))

\* lines 2083-2088: the successors that are not used yet are pushed, in the
\* order of the terminator
RECURSIVE PushSuccessors(_, _)
PushSuccessors(d, succs) ==
    IF succs = <<>> THEN d
    ELSE LET succ == Head(succs)
         IN  PushSuccessors(IF succ \in d.used THEN d
                            ELSE [order |-> Append(d.order, succ),
                                  used |-> d.used \cup {succ}],
                            Tail(succs))

\* lines 2091-2095: the blocks not yet used, in the order of the function
RECURSIVE PushUnused(_, _, _)
PushUnused(d, BB, n) ==
    IF BB > n THEN d
    ELSE PushUnused(IF BB \in d.used THEN d
                    ELSE [order |-> Append(d.order, BB), used |-> d.used \cup {BB}],
                    BB + 1, n)

\* lines 2071-2076
rewriteFunctionEntry ==
    /\ phase = "entry"
    /\ IF successors = <<>>
       THEN /\ phase' = "done"
            /\ UNCHANGED <<blocksInDFSOrder, usedBlocks>>
       ELSE /\ phase' = "discover"
            /\ blocksInDFSOrder' = <<1>>
            /\ usedBlocks' = {1}
    /\ bbIndex' = 0
    /\ UNCHANGED <<typeVars, callVars, globalVars, typesMapping, functions,
                   pendingFunctions, failedAsserts, events, successors>>

\* lines 2078-2089: one turn of the loop over the growing vector
rewriteFunctionDiscover ==
    /\ phase = "discover"
    /\ bbIndex < Len(blocksInDFSOrder)
    /\ LET BB == blocksInDFSOrder[bbIndex + 1]
           d == PushSuccessors([order |-> blocksInDFSOrder, used |-> usedBlocks],
                               successors[BB])
       IN  /\ blocksInDFSOrder' = d.order
           /\ usedBlocks' = d.used
    /\ bbIndex' = bbIndex + 1
    /\ UNCHANGED <<typeVars, callVars, globalVars, typesMapping, functions,
                   pendingFunctions, failedAsserts, events, successors, phase>>

\* lines 2090-2095
rewriteFunctionUnused ==
    /\ phase = "discover"
    /\ bbIndex = Len(blocksInDFSOrder)
    /\ LET d == PushUnused([order |-> blocksInDFSOrder, used |-> usedBlocks], 1,
                           Len(successors))
       IN  /\ blocksInDFSOrder' = d.order
           /\ usedBlocks' = d.used
    /\ bbIndex' = 0
    /\ phase' = "blocks"
    /\ UNCHANGED <<typeVars, callVars, globalVars, typesMapping, functions,
                   pendingFunctions, failedAsserts, events, successors>>

\* lines 2099-2101: the instructions of the next block are rewritten
rewriteFunctionBlock ==
    /\ phase = "blocks"
    /\ bbIndex < Len(blocksInDFSOrder)
    /\ events' = Append(events, <<"block", blocksInDFSOrder[bbIndex + 1]>>)
    /\ bbIndex' = bbIndex + 1
    /\ phase' = IF bbIndex + 1 = Len(blocksInDFSOrder) THEN "done" ELSE phase
    /\ UNCHANGED <<typeVars, callVars, globalVars, typesMapping, functions,
                   pendingFunctions, failedAsserts, successors, blocksInDFSOrder,
                   usedBlocks>>

\* the functions of up to NumBlocks blocks
InitBlocks ==
    /\ \E n \in 0..NumBlocks : successors \in [1..n -> Terminators(n)]
    /\ phase = "entry"
    /\ blocksInDFSOrder = <<>> /\ usedBlocks = {} /\ bbIndex = 0
    /\ NoTypes /\ NoCall /\ NoGlobals
    /\ typesMapping = <<>> /\ functions = <<>> /\ pendingFunctions = {}
    /\ failedAsserts = {} /\ events = <<>>

NextBlocks ==
    \/ rewriteFunctionEntry
    \/ rewriteFunctionDiscover
    \/ rewriteFunctionUnused
    \/ rewriteFunctionBlock

SpecBlocks == InitBlocks /\ [][NextBlocks]_vars

\* the blocks rewritten so far, in order
Processed == [k \in DOMAIN events |-> events[k][2]]

Pos(order, b) == CHOOSE k \in DOMAIN order : order[k] = b

\* the blocks that a path of successors from the entry block leads to
RECURSIVE ReachableFrom(_)
ReachableFrom(bs) ==
    LET more == bs \cup UNION {Range(successors[b]) : b \in bs}
    IN  IF more = bs THEN bs ELSE ReachableFrom(more)

\* the block that b is first discovered from: of the blocks that have b as a
\* successor, the first of the order
DiscoveredFrom(order, b) ==
    order[CHOOSE k \in DOMAIN order :
              /\ b \in Range(successors[order[k]])
              /\ \A j \in 1..(k - 1) : b \notin Range(successors[order[j]])]

FirstAs(b, succs) == CHOOSE k \in DOMAIN succs : succs[k] = b /\ \A j \in 1..(k - 1) : succs[j] # b

\* C21: rewriteFunction rewrites the blocks of a function in an order in which
\* every block is once, the entry block is first, every block reachable from
\* the entry block comes before every unreachable block, the reachable blocks
\* are in the order of their discovery (by the block they are discovered
\* from, then by their place among its successors), and no block comes
\* before the block it was first discovered from.
C21_BlockOrder ==
    /\ \A j, k \in DOMAIN blocksInDFSOrder :
          blocksInDFSOrder[j] = blocksInDFSOrder[k] => j = k
    /\ Len(Processed) <= Len(blocksInDFSOrder)
    /\ \A k \in DOMAIN Processed : Processed[k] = blocksInDFSOrder[k]
    /\ phase = "done" /\ successors # <<>> =>
          LET order == Processed
              reachable == ReachableFrom({1})
              found == reachable \ {1}
          IN  /\ Len(order) = Len(successors)
              /\ \A b \in DOMAIN successors : \E k \in DOMAIN order : order[k] = b
              /\ order[1] = 1
              /\ \A r \in reachable, u \in DOMAIN successors \ reachable :
                    Pos(order, r) < Pos(order, u)
              /\ \A b \in found : Pos(order, DiscoveredFrom(order, b)) < Pos(order, b)
              /\ \A a, b \in found :
                    LET pa == DiscoveredFrom(order, a)
                        pb == DiscoveredFrom(order, b)
                    IN  \/ Pos(order, pa) < Pos(order, pb)
                        \/ /\ pa = pb
                           /\ FirstAs(a, successors[pa]) < FirstAs(b, successors[pb])
                        => Pos(order, a) < Pos(order, b)

\* a function whose blocks are rewritten in the order 1, 3, 2: the entry
\* block branches to block 3 or block 2, and block 3 to block 2 or itself
C21_Witness ==
    /\ phase = "done"
    /\ successors = <<<<3, 2>>, <<1>>, <<2, 3>>>>
    /\ Processed = <<1, 3, 2>>

-----------------------------------------------------------------------------
(* rewriteFunction: the by-value arguments of a call.  Arguments are       *)
(* numbered from 1 as attribute indexes are (i + 1 in the code).           *)

MaxArgs == 2

Call(calledFunction, operands, attrs) ==
    [calledFunction |-> calledFunction, operands |-> operands, attrs |-> attrs]

\* the callee of an indirect call (getCalledFunction gives NULL) and a
\* function of which the arguments in ro are read only or read none
Indirect == [null |-> TRUE, onlyReadsMemory |-> {}]
Known(ro) == [null |-> FALSE, onlyReadsMemory |-> ro]

\* an argument value of the function being rewritten and the type it had
\* before the pass (getOriginalOperandType)
Operand(t) == [value |-> "argument", type |-> t, of |-> 0]

\* line 2189, for a value that is not a constant and not an instruction
\* rewritten before: the value itself, with the type the pass gave it
getMappedOperand(tm, v) == [v EXCEPT !.type = tm[v.type].mappedType]

\* line 2195: the pointer to the first element of the copy
byValCopy(t, i) == [value |-> "byvalcopy", type |-> PtrTy(getElementType(t)), of |-> i]

\* line 2183 with the copy made for every by-value pointer to an array
ByValArgumentCopied(tm, c, i) ==
    LET argType == c.CI.operands[i].type
        rewrittenArgType == tm[getElementType(argType)].mappedType
    IN  IF i \notin c.newAttrs \/ ~isArrayTy(rewrittenArgType) THEN c
        ELSE [c EXCEPT !.builder = @ \o <<<<"alloca", rewrittenArgType, i>>,
                                          <<"gep", 0, 0, i>>,
                                          <<"memcpy", i, getMappedOperand(tm, c.CI.operands[i])>>>>,
                       !.CI.operands[i] = byValCopy(rewrittenArgType, i),
                       !.newAttrs = @ \ {i},
                       !.attributesChanged = TRUE]

\* lines 2179-2208: one argument of the call; tm is the memo table, in which
\* the types of the operands are since the function type was rewritten
ByValArgument(tm, c, i) ==
    LET argType == c.CI.operands[i].type
        rewrittenArgType == tm[getElementType(argType)].mappedType
        calledFunction == c.CI.calledFunction
        mappedType == tm[argType].mappedType
        c1 == IF calledFunction.null \/ i \notin calledFunction.onlyReadsMemory
              THEN [c EXCEPT !.builder = @ \o <<<<"alloca", rewrittenArgType, i>>,
                                                <<"gep", 0, 0, i>>,
                                                <<"memcpy", i, getMappedOperand(tm, c.CI.operands[i])>>>>,
                             !.CI.operands[i] = byValCopy(rewrittenArgType, i),
                             !.failed = @ \cup
                                 (IF isPointerTy(mappedType)
                                     /\ ~isArrayTy(getElementType(mappedType))
                                  THEN {} ELSE {"mappedOp"})]
              ELSE c
    IN  IF i \notin c.newAttrs THEN c
        ELSE IF ~isPointerTy(argType) THEN [c EXCEPT !.failed = @ \cup {"argType"}]
        ELSE IF ~isArrayTy(rewrittenArgType) THEN c
        ELSE [c1 EXCEPT !.newAttrs = @ \ {i}, !.attributesChanged = TRUE]

\* lines 2172-2177
rewriteCall ==
    /\ phase = "call"
    /\ events' = <<<<"call", CI>>>>
    /\ IF CI.attrs = {}
       THEN phase' = "done" /\ UNCHANGED <<newAttrs, attributesChanged, argIndex>>
       ELSE /\ phase' = "arguments"
            /\ newAttrs' = CI.attrs
            /\ attributesChanged' = FALSE
            /\ argIndex' = 0
    /\ UNCHANGED <<typeVars, blockVars, globalVars, typesMapping, functions,
                   pendingFunctions, failedAsserts, CI, builder>>

\* lines 2178-2208: one turn of the loop over the arguments
rewriteCallArgument ==
    /\ phase = "arguments"
    /\ argIndex < Len(CI.operands)
    /\ LET c == ByValArgument(typesMapping,
                              [CI |-> CI, newAttrs |-> newAttrs,
                               attributesChanged |-> attributesChanged,
                               builder |-> builder, failed |-> failedAsserts],
                              argIndex + 1)
       IN  /\ CI' = c.CI
           /\ newAttrs' = c.newAttrs
           /\ attributesChanged' = c.attributesChanged
           /\ builder' = c.builder
           /\ failedAsserts' = c.failed
    /\ argIndex' = argIndex + 1
    /\ UNCHANGED <<typeVars, blockVars, globalVars, typesMapping, functions,
                   pendingFunctions, events, phase>>

\* lines 2210-2211
rewriteCallSetAttributes ==
    /\ phase = "arguments"
    /\ argIndex = Len(CI.operands)
    /\ CI' = IF attributesChanged THEN [CI EXCEPT !.attrs = newAttrs] ELSE CI
    /\ phase' = "done"
    /\ UNCHANGED <<typeVars, blockVars, globalVars, typesMapping, functions,
                   pendingFunctions, failedAsserts, events, newAttrs, attributesChanged,
                   argIndex, builder>>

\* the memo table after the function type has been rewritten: A has become
\* an array (it held one array, or arrays that were merged), C an array of
\* its leaf type, and B a struct
CallTypes ==
    {(A :> Info(ArrTy(I32, ArrayLen), k)) @@ (PtrTy(A) :> Info(PtrTy(I32), "POINTER_FROM_ARRAY"))
        @@ (B :> Info(StructTy(B[2] + 3), "IDENTICAL"))
        @@ (PtrTy(B) :> Info(PtrTy(StructTy(B[2] + 3)), "IDENTICAL"))
        @@ (C :> Info(ArrTy(DoubleTy, RowLen), "BYTE_LAYOUT_TO_ARRAY"))
        @@ (PtrTy(C) :> Info(PtrTy(DoubleTy), "POINTER_FROM_ARRAY"))
        @@ (I32 :> Info(I32, "IDENTICAL")) :
     k \in {"COLLAPSED", "MERGED_MEMBER_ARRAYS_AND_COLLAPSED"}}

\* the calls of up to MaxArgs arguments: integers and pointers to structs,
\* any of the pointers passed by value, to an unknown callee (an indirect
\* call) or to a function with any of its arguments marked read only
Calls ==
    {Call(f, ops, by) :
        ops \in UNION {[1..n -> {Operand(t) : t \in {I32, PtrTy(A), PtrTy(B), PtrTy(C)}}] :
                          n \in 0..MaxArgs},
        by \in SUBSET (1..MaxArgs),
        f \in {Indirect} \cup {Known(ro) : ro \in SUBSET (1..MaxArgs)}}

InitCall ==
    /\ typesMapping \in CallTypes
    /\ CI \in {c \in Calls :
                  /\ c.attrs \subseteq {i \in DOMAIN c.operands : isPointerTy(c.operands[i].type)}
                  /\ c.calledFunction.onlyReadsMemory \subseteq DOMAIN c.operands}
    /\ phase = "call"
    /\ newAttrs = {} /\ attributesChanged = FALSE /\ argIndex = 0 /\ builder = <<>>
    /\ NoTypes /\ NoBlocks /\ NoGlobals
    /\ functions = <<>> /\ pendingFunctions = {}
    /\ failedAsserts = {} /\ events = <<>>

NextCall ==
    \/ rewriteCall
    \/ rewriteCallArgument
    \/ rewriteCallSetAttributes

SpecCall == InitCall /\ [][NextCall]_vars

\* the instructions of the copy of argument i of the call
Copy(was, i) ==
    <<<<"alloca", Mapped(getElementType(was.operands[i].type)), i>>,
      <<"gep", 0, 0, i>>,
      <<"memcpy", i, [was.operands[i] EXCEPT !.type = Mapped(@)]>>>>

RECURSIVE Copies(_, _)
Copies(was, is) ==
    IF is = {} THEN <<>>
    ELSE LET i == CHOOSE j \in is : \A k \in is : j <= k
         IN  Copy(was, i) \o Copies(was, is \ {i})

\* C22: for an argument of a call that is passed by value and whose pointee
\* type is rewritten to an array the byval attribute is removed from the call,
\* and a copy (an alloca of the new type, a memcpy from the operand, the copy
\* passed as the argument) is inserted if and only if the callee is unknown or
\* is not known to only read the argument; the other by-value arguments and
\* the arguments not passed by value are left as they are.
C22_ByValCopies ==
    phase = "done" =>
        LET was == events[1][2]
            toArray == {i \in was.attrs : isArrayTy(Mapped(getElementType(was.operands[i].type)))}
            copied == {i \in toArray :
                          \/ was.calledFunction.null
                          \/ i \notin was.calledFunction.onlyReadsMemory}
        IN  /\ CI.attrs = was.attrs \ toArray
            /\ CI.calledFunction = was.calledFunction
            /\ \A i \in DOMAIN was.operands :
                  CI.operands[i] =
                      IF i \in copied
                      THEN byValCopy(Mapped(getElementType(was.operands[i].type)), i)
                      ELSE was.operands[i]
            /\ builder = Copies(was, copied)
            /\ failedAsserts = {}

\* a call f(a, c) of a known function that only reads its second argument,
\* both arguments passed by value and both rewritten to arrays: the first is
\* copied, the second is not, and neither is by value any more
C22_Witness ==
    /\ phase = "done"
    /\ events[1][2] = Call(Known({2}),
                           <<Operand(PtrTy(A)), Operand(PtrTy(C))>>, {1, 2})
    /\ CI.attrs = {}
    /\ CI.operands = <<byValCopy(ArrTy(I32, ArrayLen), 1), Operand(PtrTy(C))>>
    /\ Len(builder) = 3

-----------------------------------------------------------------------------
(* runOnModule: the order of the phases of one pass.  A call of rewriteType *)
(* is an event here; what the call does is in the actions of Spec.          *)

MaxGlobals == 2
MaxFunctions == 2

\* a global variable, of pointer type as every global value is
GlobalVariable(t, init) == [type |-> PtrTy(t), hasInitializer |-> init]

\* a function and the global variables that are operands of its instructions
FunctionUsing(gvs) == [globals |-> gvs]

\* line 2399 without the insertion
insertSkipped(mapping, GV, rewrittenGlobal) == mapping

\* line 2399: globalsMapping.insert
insert(mapping, GV, rewrittenGlobal) ==
    IF GV \in DOMAIN mapping THEN mapping ELSE (GV :> rewrittenGlobal) @@ mapping

\* lines 1565-1570, for each global variable in gvs: which are not in the
\* mapping
rewriteConstantGlobal(mapping, gvs) ==
    IF gvs \subseteq DOMAIN mapping THEN {} ELSE {"globalsMapping.count"}

\* lines 2396-2400 and 2346-2368: one global variable; it is replaced by
\* itself or, if the type it points to has become an array, by the address
\* of its first element
runOnModuleGlobal ==
    /\ phase = "rewrite"
    /\ gvIndex < Len(globals)
    /\ LET GV == gvIndex + 1
       IN  /\ globalTypeMapping' = (GV :> globals[GV].type) @@ globalTypeMapping
           /\ \E rewrittenGlobal \in {<<"global", GV>>, <<"gep", GV, 0, 0>>} :
                 globalsMapping' = insert(globalsMapping, GV, rewrittenGlobal)
           /\ events' = events \o <<<<"rewriteType", globals[GV].type>>,
                                     <<"rewriteGlobal", GV>>>>
    /\ gvIndex' = gvIndex + 1
    /\ UNCHANGED <<typeVars, blockVars, callVars, typesMapping, functions,
                   pendingFunctions, failedAsserts, phase, globals>>

\* lines 2401-2402
runOnModuleInsert ==
    /\ phase = "rewrite"
    /\ gvIndex = Len(globals)
    /\ pendingFunctions' = DOMAIN functions
    /\ phase' = "functions"
    /\ UNCHANGED <<typeVars, blockVars, callVars, globalVars, typesMapping, functions,
                   failedAsserts, events>>

\* lines 2403-2405: one turn of the loop, on any of the pending functions;
\* rewriteFunction takes the function out of the set (line 1996), rewrites its
\* type and the constants among the operands of its instructions
runOnModuleFunction ==
    /\ phase = "functions"
    /\ \E F \in pendingFunctions :
          /\ pendingFunctions' = pendingFunctions \ {F}
          /\ events' = events \o <<<<"rewriteFunction", F>>, <<"rewriteType", F>>>>
          /\ failedAsserts' =
                failedAsserts \cup rewriteConstantGlobal(globalsMapping, functions[F].globals)
    /\ UNCHANGED <<typeVars, blockVars, callVars, globalVars, typesMapping, functions,
                   phase>>

\* line 2404, when the set is empty
runOnModuleDrained ==
    /\ phase = "functions"
    /\ pendingFunctions = {}
    /\ phase' = "inits"
    /\ gvIndex' = 0
    /\ UNCHANGED <<typeVars, blockVars, callVars, typesMapping, functions,
                   pendingFunctions, failedAsserts, events, globals, globalsMapping,
                   globalTypeMapping>>

\* lines 2407-2408 and 2370-2382: the initializer of one global variable
runOnModuleGlobalInit ==
    /\ phase = "inits"
    /\ gvIndex < Len(globals)
    /\ LET GV == gvIndex + 1
       IN  events' =
              IF ~globals[GV].hasInitializer THEN events
              ELSE events \o <<<<"rewriteGlobalInit", GV>>,
                                <<"rewriteType", getElementType(globalTypeMapping[GV])>>>>
    /\ gvIndex' = gvIndex + 1
    /\ UNCHANGED <<typeVars, blockVars, callVars, typesMapping, functions,
                   pendingFunctions, failedAsserts, phase, globals, globalsMapping,
                   globalTypeMapping>>

\* lines 2409-2422, for a module without aliases and intrinsics
runOnModuleEnd ==
    /\ phase = "inits"
    /\ gvIndex = Len(globals)
    /\ phase' = "done"
    /\ UNCHANGED <<typeVars, blockVars, callVars, globalVars, typesMapping, functions,
                   pendingFunctions, failedAsserts, events>>

\* the modules of up to MaxGlobals global variables and MaxFunctions
\* functions, with up to MaxInsts casts
InitModule ==
    /\ structs = (A :> Plain(<<B>>, "A")) @@ (B :> Plain(<<C>>, "B"))
                    @@ (C :> Plain(<<I32>>, "C"))
    /\ insts \in SubsetsUpTo(CastInsts, MaxInsts)
    /\ globals \in SeqsUpTo({GlobalVariable(A, init) : init \in BOOLEAN}, 0, MaxGlobals)
    /\ functions \in SeqsUpTo({FunctionUsing(gvs) : gvs \in SUBSET DOMAIN globals}, 0,
                               MaxFunctions)
    /\ phase = "gather"
    /\ seen = {} /\ geps = {} /\ accesses = {} /\ run = 1
    /\ downcastSourceToDestinationsMapping = <<>>
    /\ baseTypesForByteLayout = <<>> /\ escapingFields = {}
    /\ typesMapping = <<>> /\ membersMappingData = <<>> /\ newStructTypes = {}
    /\ steps = 0 /\ stack = <<>> /\ ret = Info(NULL, "IDENTICAL") /\ calls = {}
    /\ nCalls = 0 /\ gepOut = <<>> /\ mem = <<>> /\ written = <<>> /\ loaded = <<>>
    /\ roots = {} /\ constOut = <<>>
    /\ pendingFunctions = {} /\ failedAsserts = {} /\ events = <<>>
    /\ globalsMapping = <<>> /\ globalTypeMapping = <<>> /\ gvIndex = 0
    /\ NoBlocks /\ NoCall

NextModule ==
    \/ gatherAllTypesInfo
    \/ runOnModuleGlobal
    \/ runOnModuleInsert
    \/ runOnModuleFunction
    \/ runOnModuleDrained
    \/ runOnModuleGlobalInit
    \/ runOnModuleEnd

SpecModule == InitModule /\ [][NextModule]_vars

\* the positions of the events of a kind
EventsOf(kind) == {k \in DOMAIN events : events[k][1] = kind}

\* C26: in one pass the analysis pre-pass is complete before the first call
\* of rewriteType; every global variable has its new type and is in the global
\* mapping before any function is rewritten, so that rewriteConstant finds
\* every global variable it is given; and the initializers of the global
\* variables are rewritten only when the set of pending functions is empty.
C26_PhaseOrder ==
    /\ EventsOf("rewriteType") # {} => phase # "gather" /\ seen = insts
    /\ EventsOf("rewriteFunction") # {} =>
          /\ DOMAIN globalsMapping = DOMAIN globals
          /\ {events[k][2] : k \in EventsOf("rewriteGlobal")} = DOMAIN globals
    /\ \A g \in EventsOf("rewriteGlobal"), f \in EventsOf("rewriteFunction") : g < f
    /\ "globalsMapping.count" \notin failedAsserts
    /\ EventsOf("rewriteGlobalInit") # {} =>
          /\ pendingFunctions = {}
          /\ {events[k][2] : k \in EventsOf("rewriteFunction")} = DOMAIN functions
    /\ \A f \in EventsOf("rewriteFunction"), i \in EventsOf("rewriteGlobalInit") : f < i

\* a finished pass over a module of two global variables with initializers
\* and two functions that use both, with casts seen by the pre-pass
C26_Witness ==
    /\ phase = "done"
    /\ seen # {}
    /\ Len(globals) = MaxGlobals /\ Len(functions) = MaxFunctions
    /\ \A F \in DOMAIN functions : functions[F].globals = DOMAIN globals
    /\ Cardinality(EventsOf("rewriteGlobalInit")) = MaxGlobals
    /\ Cardinality(EventsOf("rewriteFunction")) = MaxFunctions

====
